---- MODULE Spec2Model ----
(***************************************************************************)
(* Forecasting engine (ForecastService) and shift optimization engine      *)
(* (ScheduleOptimizer) of the workforce-management core.                   *)
(*                                                                         *)
(* Conventions of the model                                                *)
(*  - A date 'YYYY-MM-DD' is a day number; day 0 is 2024-12-22, a Sunday.  *)
(*  - A time of day 'HH:mm' is a number of minutes since midnight.         *)
(*  - A JavaScript number is an exact fraction <<n, d>> with d > 0, or     *)
(*    Infinity, -Infinity or NaN; floating-point rounding is not modelled. *)
(*  - DECIMAL(10,2) columns are integers in hundredths, DECIMAL(5,4)       *)
(*    columns integers in ten-thousandths; a falsy column value (null or   *)
(*    0) is the integer 0.                                                 *)
(*  - A nullable column holds <<>> (null) or <<v>>; a nullable id holds    *)
(*    the string NULL.                                                     *)
(***************************************************************************)
EXTENDS Integers, Sequences, FiniteSets, TLC

VARIABLES
  forecasts,   \* the Forecast table, in insertion order
  today,       \* the day number of the wall clock (moment())
  fcCall,      \* what the last ForecastService entry point did
  dialect,     \* the storage dialect of the deployment
  schedules,   \* the Schedule table, in insertion order
  shifts,      \* the Shift table, in insertion order
  timeOffs,    \* the TimeOff table
  genCall,     \* what the last generateOptimizedSchedule call did
  predIn,      \* arguments of calculatePredictedVolume
  predOut,     \* its result
  staffIn,     \* arguments of calculateRequiredAgents
  staffOut,    \* its result
  assignIn,    \* arguments of assignAgentsToShifts
  assignOut,   \* its result
  optIn,       \* arguments of another ScheduleOptimizer function called alone
  optOut,      \* its result
  cronRuns,    \* what the runs of the scheduled tasks did, oldest first
  alive        \* the server process is running

vars == <<forecasts, today, fcCall, dialect, schedules, shifts, timeOffs,
          genCall, predIn, predOut, staffIn, staffOut, assignIn, assignOut,
          optIn, optOut, cronRuns, alive>>

forecastVars == <<forecasts, today, fcCall>>
scheduleVars == <<schedules, shifts, timeOffs, genCall>>
pureVars == <<predIn, predOut, staffIn, staffOut>>
assignVars == <<assignIn, assignOut, optIn, optOut>>
cronVars == <<cronRuns, alive>>

NULL == "null"
None == [op |-> "none", seq |-> 0]

(***************************************************************************)
(* Bounds of the model.                                                    *)
(***************************************************************************)
MaxDay == 2
MaxCalls == 2
MaxSamples == 3

(***************************************************************************)
(* Numbers.  <<n, d>> with d > 0 is the fraction n/d, <<1, 0>> is          *)
(* Infinity, <<-1, 0>> is -Infinity and <<0, 0>> is NaN.                   *)
(***************************************************************************)
NaN == <<0, 0>>
Infinity == <<1, 0>>
IsNaN(x) == x = NaN
IsFinite(x) == x[2] # 0
Sgn(n) == IF n > 0 THEN 1 ELSE IF n < 0 THEN -1 ELSE 0
Abs(n) == IF n < 0 THEN -n ELSE n
RECURSIVE Gcd(_, _)
Gcd(a, b) == IF b = 0 THEN a ELSE Gcd(b, a % b)
\* The fraction in lowest terms with a positive denominator.
Norm(x) ==
  IF x[2] = 0 THEN <<Sgn(x[1]), 0>>
  ELSE LET g == Gcd(Abs(x[1]), Abs(x[2]))
       IN <<Sgn(x[2]) * (x[1] \div g), Abs(x[2]) \div g>>
Int2Rat(n) == <<n, 1>>
RatMul(a, b) == Norm(<<a[1] * b[1], a[2] * b[2]>>)
RatDiv(a, b) == Norm(<<a[1] * b[2], a[2] * b[1]>>)
RatAdd(a, b) ==
  IF ~IsFinite(a) /\ ~IsFinite(b) THEN (IF a = b THEN a ELSE NaN)
  ELSE Norm(<<a[1] * b[2] + b[1] * a[2], a[2] * b[2]>>)
RatNeg(a) == <<-a[1], a[2]>>
RatSub(a, b) == RatAdd(a, RatNeg(b))
\* Every comparison with NaN is false.
RatLE(a, b) == ~IsNaN(a) /\ ~IsNaN(b) /\ a[1] * b[2] <= b[1] * a[2]
RatLT(a, b) == RatLE(a, b) /\ ~RatLE(b, a)
\* Math.max and Math.min return NaN when an argument is NaN.
MathMax(a, b) == IF IsNaN(a) \/ IsNaN(b) THEN NaN ELSE IF RatLE(a, b) THEN b ELSE a
MathMin(a, b) == IF IsNaN(a) \/ IsNaN(b) THEN NaN ELSE IF RatLE(a, b) THEN a ELSE b
MathFloor(a) == IF ~IsFinite(a) THEN a ELSE <<a[1] \div a[2], 1>>
MathCeil(a) == IF ~IsFinite(a) THEN a ELSE <<-((-a[1]) \div a[2]), 1>>
\* Math.round rounds halves up.
MathRound(a) == IF ~IsFinite(a) THEN a ELSE <<(2 * a[1] + a[2]) \div (2 * a[2]), 1>>
\* JavaScript's x || d on a column value.
OrDefault(x, d) == IF x = 0 THEN d ELSE x

RECURSIVE SumSeq(_)
SumSeq(s) == IF s = <<>> THEN 0 ELSE Head(s) + SumSeq(Tail(s))

Range(s) == {s[i] : i \in DOMAIN s}

(***************************************************************************)
(* Calendar (moment(date).day(), .month(), .date()).                       *)
(***************************************************************************)
DayOfWeek(d) == d % 7
Month(d) == IF d <= 9 THEN 11 ELSE 0
DayOfMonth(d) == IF d <= 9 THEN 22 + d ELSE d - 9

(***************************************************************************)
(* The Channel table.  The core only reads it.  The model checks no column *)
(* value: c4 has a shrinkage factor of 1.5.                                *)
(***************************************************************************)
ChannelTable ==
  [c1 |-> [id |-> "c1", is_active |-> TRUE,
           operating_hours_start |-> 480, operating_hours_end |-> 600,
           average_handle_time |-> 650, wrap_up_time |-> 200,
           service_level_target |-> 8000, service_level_threshold |-> 20,
           shrinkage_factor |-> 2500, min_staffing_level |-> 2,
           preferred_staffing_buffer |-> 1000],
   c2 |-> [id |-> "c2", is_active |-> TRUE,
           operating_hours_start |-> 570, operating_hours_end |-> 645,
           average_handle_time |-> 0, wrap_up_time |-> 0,
           service_level_target |-> 0, service_level_threshold |-> 0,
           shrinkage_factor |-> 0, min_staffing_level |-> 0,
           preferred_staffing_buffer |-> 0],
   c3 |-> [id |-> "c3", is_active |-> FALSE,
           operating_hours_start |-> 480, operating_hours_end |-> 540,
           average_handle_time |-> 400, wrap_up_time |-> 100,
           service_level_target |-> 9000, service_level_threshold |-> 30,
           shrinkage_factor |-> 3000, min_staffing_level |-> 1,
           preferred_staffing_buffer |-> 2000],
   c4 |-> [id |-> "c4", is_active |-> FALSE,
           operating_hours_start |-> 480, operating_hours_end |-> 540,
           average_handle_time |-> 400, wrap_up_time |-> 100,
           service_level_target |-> 9000, service_level_threshold |-> 30,
           shrinkage_factor |-> 15000, min_staffing_level |-> 1,
           preferred_staffing_buffer |-> 2000]]
ChannelIds == DOMAIN ChannelTable
MissingChannel == "c9"
SkillIds == {"s1"}

\* A lookup that answers an unknown id with a channel all the same.
findByPkOrFirst(channelId) ==
  IF channelId \in ChannelIds THEN <<ChannelTable[channelId]>> ELSE <<ChannelTable.c1>>

\* Channel.findByPk: <<>> when no row has the id.
findByPk(channelId) ==
  IF channelId \in ChannelIds THEN <<ChannelTable[channelId]>> ELSE <<>>

(***************************************************************************)
(* ForecastService: the pure part.                                         *)
(***************************************************************************)
dayOfWeekFactors == <<6, 11, 10, 10, 12, 11, 7>>
hourFactors ==
  <<1, 1, 1, 1, 2, 3, 5, 7, 10, 12, 11, 10, 9, 11, 12, 11, 10, 8, 6, 4, 3, 2, 1, 1>>
monthlyFactors == <<11, 10, 10, 10, 9, 9, 8, 8, 10, 11, 12, 13>>

getSeasonalFactors(date, hour) ==
  [seasonal |-> Norm(<<dayOfWeekFactors[DayOfWeek(date) + 1] * hourFactors[hour + 1]
                         * monthlyFactors[Month(date) + 1], 1000>>),
   trend |-> Norm(<<102, 100>>)]

holidays == {<<0, 1>>, <<6, 4>>, <<11, 25>>}

getHolidayFactor(date) ==
  IF <<Month(date), DayOfMonth(date)>> \in holidays THEN <<3, 10>> ELSE <<1, 1>>

getExternalFactors(date, hour) ==
  [holidayFactor |-> getHolidayFactor(date), weather |-> <<1, 1>>,
   specialEvent |-> <<1, 1>>]

\* An operating window that takes the closing hour in.
isOperatingHourInclusive(hour, channel) ==
  LET startHour == channel.operating_hours_start \div 60
      endHour == channel.operating_hours_end \div 60
  IN hour >= startHour /\ hour <= endHour

isOperatingHour(hour, channel) ==
  LET startHour == channel.operating_hours_start \div 60
      endHour == channel.operating_hours_end \div 60
  IN hour >= startHour /\ hour < endHour

RECURSIVE SumSquaredDiffs(_, _, _)
\* The sum of (val - mean)^2 over values, mean = total/n, as a fraction over n^2.
SumSquaredDiffs(values, total, n) ==
  IF values = <<>> THEN 0
  ELSE (n * Head(values) - total) * (n * Head(values) - total)
         + SumSquaredDiffs(Tail(values), total, n)

calculateVariance(values) ==
  IF Len(values) < 2 THEN <<0, 1>>
  ELSE LET n == Len(values)
       IN Norm(<<SumSquaredDiffs(values, SumSeq(values), n), n * n * n>>)

calculatePredictedVolume(historicalData, seasonalFactors, externalFactors) ==
  IF Len(historicalData) = 0
  THEN [volume |-> <<10, 1>>, confidence |-> <<30, 100>>,
        minVolume |-> <<5, 1>>, maxVolume |-> <<20, 1>>]
  ELSE
    LET volumes == [i \in DOMAIN historicalData |-> historicalData[i].volume]
        baseVolume == Norm(<<SumSeq(volumes), Len(volumes)>>)
        seasonallyAdjusted ==
          RatMul(RatMul(baseVolume, seasonalFactors.seasonal), seasonalFactors.trend)
        finalVolume ==
          MathRound(RatMul(RatMul(RatMul(seasonallyAdjusted,
                                         externalFactors.specialEvent),
                                  externalFactors.weather),
                           externalFactors.holidayFactor))
        variance == calculateVariance(volumes)
        confidence ==
          MathMax(<<40, 100>>,
                  MathMin(<<95, 100>>,
                          RatSub(<<1, 1>>, RatDiv(variance, baseVolume))))
        variabilityFactor == RatSub(<<1, 1>>, confidence)
        minVolume ==
          MathMax(<<0, 1>>,
                  MathFloor(RatMul(finalVolume, RatSub(<<1, 1>>, variabilityFactor))))
        maxVolume ==
          MathCeil(RatMul(finalVolume, RatAdd(<<1, 1>>, variabilityFactor)))
    IN [volume |-> finalVolume, confidence |-> confidence,
        minVolume |-> minVolume, maxVolume |-> maxVolume]

calculateServiceLevelBuffer(serviceLevel, targetAnswerTime) ==
  RatAdd(<<1, 1>>, RatMul(RatSub(serviceLevel, <<5, 10>>), <<5, 10>>))

predictServiceLevel(agents, workload, targetSeconds) ==
  LET utilization == RatDiv(workload, agents)
  IN IF RatLE(<<1, 1>>, utilization) THEN <<1, 10>>
     ELSE MathMax(<<1, 10>>, MathMin(<<99, 100>>, RatSub(<<1, 1>>, utilization)))

predictAverageWaitTime(agents, workload) ==
  LET utilization == RatDiv(workload, agents)
  IN IF RatLE(<<1, 1>>, utilization) THEN <<300, 1>>
     ELSE MathMax(<<0, 1>>, RatMul(utilization, <<60, 1>>))

\* calculateRequiredAgents with the channel minimum left out of `required`.
calculateRequiredAgentsUnfloored(predictedVolume, channel, skillId) ==
  LET volume == predictedVolume.volume
      aht == Norm(<<OrDefault(channel.average_handle_time, 500), 100>>)
      wrapUpTime == Norm(<<OrDefault(channel.wrap_up_time, 200), 100>>)
      serviceLevel ==
        Norm(<<OrDefault(channel.service_level_target, 8000), 10000>>)
      targetAnswerTime == OrDefault(channel.service_level_threshold, 20)
      shrinkage == Norm(<<OrDefault(channel.shrinkage_factor, 2500), 10000>>)
      totalHandleTime == RatAdd(aht, wrapUpTime)
      workloadErlangs == RatDiv(RatMul(volume, totalHandleTime), <<60, 1>>)
      adjustedWorkload == RatDiv(workloadErlangs, RatSub(<<1, 1>>, shrinkage))
      baseAgents == MathCeil(adjustedWorkload)
      bufferFactor == calculateServiceLevelBuffer(serviceLevel, targetAnswerTime)
      requiredAgents == MathCeil(RatMul(baseAgents, bufferFactor))
      optimalAgents ==
        MathCeil(RatMul(requiredAgents,
                        RatAdd(<<1, 1>>,
                               Norm(<<OrDefault(channel.preferred_staffing_buffer,
                                                1000), 10000>>))))
      minimumAgents == <<OrDefault(channel.min_staffing_level, 1), 1>>
  IN [required |-> requiredAgents, optimal |-> optimalAgents,
      minimum |-> minimumAgents,
      predictedServiceLevel |->
        predictServiceLevel(requiredAgents, workloadErlangs, targetAnswerTime),
      predictedWaitTime |-> predictAverageWaitTime(requiredAgents, workloadErlangs)]

calculateRequiredAgents(predictedVolume, channel, skillId) ==
  LET volume == predictedVolume.volume
      aht == Norm(<<OrDefault(channel.average_handle_time, 500), 100>>)
      wrapUpTime == Norm(<<OrDefault(channel.wrap_up_time, 200), 100>>)
      serviceLevel ==
        Norm(<<OrDefault(channel.service_level_target, 8000), 10000>>)
      targetAnswerTime == OrDefault(channel.service_level_threshold, 20)
      shrinkage == Norm(<<OrDefault(channel.shrinkage_factor, 2500), 10000>>)
      totalHandleTime == RatAdd(aht, wrapUpTime)
      workloadErlangs == RatDiv(RatMul(volume, totalHandleTime), <<60, 1>>)
      adjustedWorkload == RatDiv(workloadErlangs, RatSub(<<1, 1>>, shrinkage))
      baseAgents == MathCeil(adjustedWorkload)
      bufferFactor == calculateServiceLevelBuffer(serviceLevel, targetAnswerTime)
      requiredAgents ==
        MathMax(<<OrDefault(channel.min_staffing_level, 1), 1>>,
                MathCeil(RatMul(baseAgents, bufferFactor)))
      optimalAgents ==
        MathCeil(RatMul(requiredAgents,
                        RatAdd(<<1, 1>>,
                               Norm(<<OrDefault(channel.preferred_staffing_buffer,
                                                1000), 10000>>))))
      minimumAgents == <<OrDefault(channel.min_staffing_level, 1), 1>>
  IN [required |-> requiredAgents, optimal |-> optimalAgents,
      minimum |-> minimumAgents,
      predictedServiceLevel |->
        predictServiceLevel(requiredAgents, workloadErlangs, targetAnswerTime),
      predictedWaitTime |-> predictAverageWaitTime(requiredAgents, workloadErlangs)]

(***************************************************************************)
(* The Forecast table.                                                     *)
(***************************************************************************)
Truthy(x) == IsFinite(x) /\ x[1] # 0

\* Forecast's beforeValidate hook, for forecast_method 'seasonal_decomposition'.
ForecastBeforeValidate(row) ==
  LET min_volume ==
        IF Truthy(row.predicted_volume) /\ ~Truthy(row.min_volume)
        THEN MathMax(<<0, 1>>, MathFloor(RatMul(row.predicted_volume, <<7, 10>>)))
        ELSE row.min_volume
      max_volume ==
        IF Truthy(row.predicted_volume) /\ ~Truthy(row.max_volume)
        THEN MathCeil(RatMul(row.predicted_volume, <<13, 10>>))
        ELSE row.max_volume
      confidence_level ==
        IF ~Truthy(row.confidence_level) THEN <<80, 100>> ELSE row.confidence_level
  IN [row EXCEPT !.min_volume = min_volume, !.max_volume = max_volume,
                 !.confidence_level = confidence_level]

ForecastKey(row) ==
  <<row.channel_id, row.skill_id, row.forecast_date, row.forecast_hour>>

\* The unique index unique_forecast_period on (channel_id, skill_id,
\* forecast_date, forecast_hour).  PostgreSQL and SQLite both treat NULLs in a
\* unique index as distinct: a row whose skill_id is NULL conflicts with no row.
unique_forecast_period(store, row) ==
  row.skill_id = NULL
    \/ \A i \in DOMAIN store : ForecastKey(store[i]) # ForecastKey(row)

\* A numeric column cannot take NaN or an infinity: PostgreSQL rejects the
\* statement, SQLite stores no number.
HasNoNumber(row) ==
  \E x \in {row.predicted_volume, row.confidence_level, row.min_volume,
            row.max_volume, row.required_agents, row.optimal_agents,
            row.minimum_agents} : ~IsFinite(x)

\* created_by is a UUID column: PostgreSQL takes null or a UUID (a user's id)
\* and nothing else, SQLite keeps any text.
UserIds == {"u1"}
IsUuidOrNull(text) == text \in {NULL} \cup UserIds

\* Forecast.create: the hook, then the INSERT.  writeFails is a storage failure
\* of this INSERT (connection lost, timeout).
ForecastCreate(store, values, writeFails, db) ==
  LET row == ForecastBeforeValidate(values)
  IN IF writeFails \/ ~unique_forecast_period(store, row)
          \/ (db = "postgres" /\ (HasNoNumber(row) \/ ~IsUuidOrNull(row.created_by)))
     THEN [ok |-> FALSE, store |-> store, row |-> row]
     ELSE [ok |-> TRUE, store |-> Append(store, row), row |-> row]

RECURSIVE InsertByDateDesc(_, _)
\* r placed in rows, which are in descending forecast_date order, after the
\* rows that are not older than r.
InsertByDateDesc(r, rows) ==
  IF rows = <<>> THEN <<r>>
  ELSE IF Head(rows).forecast_date >= r.forecast_date
  THEN <<Head(rows)>> \o InsertByDateDesc(r, Tail(rows))
  ELSE <<r>> \o rows

RECURSIVE OrderByDateDesc(_)
\* order: [['forecast_date', 'DESC']].
OrderByDateDesc(rows) ==
  IF rows = <<>> THEN <<>>
  ELSE InsertByDateDesc(Head(rows), OrderByDateDesc(Tail(rows)))

lookbackDays == 28

\* The query of getHistoricalData: the rows of the channel and hour (and of
\* the skill, when one is given) that have an actual volume and a date between
\* startDate and endDate.
HistoryQuery(store, channelId, hour, skillId, startDate, endDate) ==
  LET match(r) == /\ r.channel_id = channelId
                  /\ r.forecast_hour = hour
                  /\ r.forecast_date >= startDate
                  /\ r.forecast_date <= endDate
                  /\ r.actual_volume # <<>>
                  /\ (skillId # NULL => r.skill_id = skillId)
  IN OrderByDateDesc(SelectSeq(store, match))

HistoryRow(f) ==
  [date |-> f.forecast_date, volume |-> f.actual_volume[1], hour |-> f.forecast_hour]

RECURSIVE MapHistory(_)
MapHistory(rows) ==
  IF rows = <<>> THEN <<>> ELSE <<HistoryRow(Head(rows))>> \o MapHistory(Tail(rows))

\* getHistoricalData whose catch does not return []: the history is the one
\* a read that went through returns.
getHistoricalDataUnguarded(store, channelId, hour, skillId, now, readFails) ==
  MapHistory(HistoryQuery(store, channelId, hour, skillId, now - lookbackDays, now))

\* readFails: Forecast.findAll throws; the catch returns [].
getHistoricalData(store, channelId, hour, skillId, now, readFails) ==
  IF readFails THEN <<>>
  ELSE MapHistory(HistoryQuery(store, channelId, hour, skillId,
                               now - lookbackDays, now))

\* The values generateHourlyForecasts hands to Forecast.create.
ForecastValues(channel, skillId, date, hour, predictedVolume, requiredAgents) ==
  [channel_id |-> channel.id, skill_id |-> skillId,
   forecast_date |-> date, forecast_hour |-> hour,
   predicted_volume |-> predictedVolume.volume,
   confidence_level |-> predictedVolume.confidence,
   min_volume |-> predictedVolume.minVolume,
   max_volume |-> predictedVolume.maxVolume,
   required_agents |-> requiredAgents.required,
   optimal_agents |-> requiredAgents.optimal,
   minimum_agents |-> requiredAgents.minimum,
   predicted_service_level |-> requiredAgents.predictedServiceLevel,
   predicted_average_wait_time |-> requiredAgents.predictedWaitTime,
   status |-> "generated", created_by |-> "system", actual_volume |-> <<>>]

\* The staffing of a predicted volume, and the values to store for the hour.
HourForecast(channel, skillId, date, hour, predictedVolume) ==
  ForecastValues(channel, skillId, date, hour, predictedVolume,
                 calculateRequiredAgents(predictedVolume, channel, skillId))

RECURSIVE hourLoop(_, _, _, _, _, _, _, _, _)
RECURSIVE hourCreated(_, _, _, _, _, _, _, _, _)
\* The rest of one iteration once Forecast.create has returned or thrown: a
\* throw leaves the loop and the function (the catch logs and rethrows).
hourCreated(res, hour, made, channel, date, skillId, now, fail, db) ==
  IF ~res.ok
  THEN [store |-> res.store, created |-> made, threw |-> TRUE,
        error |-> "create", failedHours |-> {hour}]
  ELSE hourLoop(hour + 1, res.store, Append(made, res.row), channel, date,
                skillId, now, fail, db)

\* The for loop of generateHourlyForecasts from `hour` on.  fail.read and
\* fail.write are the hours whose history read and whose INSERT fail.
hourLoop(hour, store, made, channel, date, skillId, now, fail, db) ==
  IF hour >= 24
  THEN [store |-> store, created |-> made, threw |-> FALSE, error |-> "",
        failedHours |-> {}]
  ELSE IF ~isOperatingHour(hour, channel)
  THEN hourLoop(hour + 1, store, made, channel, date, skillId, now, fail, db)
  ELSE
    hourCreated(
      ForecastCreate(store,
        HourForecast(channel, skillId, date, hour,
          calculatePredictedVolume(
            getHistoricalData(store, channel.id, hour, skillId, now,
                              hour \in fail.read),
            getSeasonalFactors(date, hour),
            getExternalFactors(date, hour))),
        hour \in fail.write, db),
      hour, made, channel, date, skillId, now, fail, db)

generateHourlyForecasts(store, channelId, date, skillId, now, fail, db) ==
  IF findByPk(channelId) = <<>>
  THEN [store |-> store, created |-> <<>>, threw |-> TRUE,
        error |-> "Channel not found", failedHours |-> {}]
  ELSE hourLoop(0, store, <<>>, findByPk(channelId)[1], date, skillId, now,
                fail, db)

RECURSIVE channelLoop(_, _, _, _, _, _)
RECURSIVE channelDone(_, _, _, _, _, _, _)
\* The rest of one iteration once generateHourlyForecasts has returned or
\* thrown: the first call that throws ends the loop.
channelDone(res, work, store, calls, now, fail, db) ==
  IF res.threw
  THEN [store |-> res.store,
        calls |-> Append(calls, [channelId |-> Head(work)[1], date |-> Head(work)[2],
                                 threw |-> TRUE, created |-> res.created,
                                 failedHours |-> res.failedHours]),
        caught |-> TRUE]
  ELSE channelLoop(Tail(work), res.store,
                   Append(calls, [channelId |-> Head(work)[1], date |-> Head(work)[2],
                                  threw |-> FALSE, created |-> res.created,
                                  failedHours |-> res.failedHours]),
                   now, fail, db)

\* The for loop of updateHourlyForecasts over `work`, the <<channel id, date>>
\* pairs still to generate, in order.  fail.write holds <<channel id, date,
\* hour>> triples.
channelLoop(work, store, calls, now, fail, db) ==
  IF work = <<>> THEN [store |-> store, calls |-> calls, caught |-> FALSE]
  ELSE
    channelDone(
      generateHourlyForecasts(store, Head(work)[1], Head(work)[2], NULL, now,
        [read |-> fail.read,
         write |-> {h \in 0..23 : <<Head(work)[1], Head(work)[2], h>> \in fail.write}],
        db),
      work, store, calls, now, fail, db)

RECURSIVE WorkList(_, _)
\* today and tomorrow for each channel, in the order findAll returned them.
WorkList(channels, now) ==
  IF channels = <<>> THEN <<>>
  ELSE <<<<Head(channels), now>>, <<Head(channels), now + 1>>>>
         \o WorkList(Tail(channels), now)

ActiveChannelIds == {c \in ChannelIds : ChannelTable[c].is_active}

\* updateHourlyForecasts.  channels is Channel.findAll's result (ids, in the
\* order the storage returned them); fail.channels: Channel.findAll throws.
\* Whatever is thrown inside the try is caught and logged.
updateHourlyForecasts(store, now, channels, fail, db) ==
  IF fail.channels
  THEN [store |-> store, calls |-> <<>>, caught |-> TRUE]
  ELSE channelLoop(WorkList(channels, now), store, <<>>, now, fail, db)

(***************************************************************************)
(* The forecasting engine as a state machine.                              *)
(***************************************************************************)
Dialects == {"postgres", "sqlite"}
HistVolumes == {0, 20}

\* A row of an earlier day, published and with its observed volume ingested
\* (or not yet: actual = <<>>) by the flows outside the core.
SeedRow(channelId, date, hour, actual) ==
  [channel_id |-> channelId, skill_id |-> NULL, forecast_date |-> date,
   forecast_hour |-> hour, predicted_volume |-> <<10, 1>>,
   confidence_level |-> <<80, 100>>, min_volume |-> <<7, 1>>,
   max_volume |-> <<13, 1>>, required_agents |-> <<2, 1>>,
   optimal_agents |-> <<3, 1>>, minimum_agents |-> <<1, 1>>,
   predicted_service_level |-> <<8, 10>>,
   predicted_average_wait_time |-> <<20, 1>>,
   status |-> "published", created_by |-> NULL, actual_volume |-> actual]

Actuals == {<<>>} \cup {<<v>> : v \in HistVolumes}

FailHours == {h \in 0..23 : \E c \in ChannelIds : isOperatingHour(h, ChannelTable[c])}
Orders(S) == {q \in [1..Cardinality(S) -> S] : Range(q) = S}

IdleSchedule ==
  /\ schedules = <<>>
  /\ shifts = <<>>
  /\ timeOffs = {}
  /\ genCall = None
IdleAssign ==
  /\ assignIn = None
  /\ assignOut = None
  /\ optIn = None
  /\ optOut = None
IdleCron ==
  /\ cronRuns = <<>>
  /\ alive = TRUE
IdlePure ==
  /\ predIn = None
  /\ predOut = None
  /\ staffIn = None
  /\ staffOut = None
  /\ IdleAssign
  /\ IdleCron

Init ==
  /\ \E a0 \in Actuals : forecasts = <<SeedRow("c1", 0, 8, a0)>>
  /\ today \in 1..MaxDay
  /\ fcCall = None
  /\ dialect \in Dialects
  /\ IdleSchedule
  /\ IdlePure

\* The storage failures of one call: none, or one history read, or one INSERT
\* (or, for updateHourlyForecasts, the read of the channels).
NoFault == [channels |-> FALSE, read |-> {}, write |-> {}]
GenerateFaults ==
  {NoFault} \cup {[NoFault EXCEPT !.read = {h}] : h \in FailHours}
            \cup {[NoFault EXCEPT !.write = {h}] : h \in FailHours}
UpdateFaults ==
  {NoFault, [NoFault EXCEPT !.channels = TRUE]}
    \cup {[NoFault EXCEPT !.read = {h}] : h \in FailHours}
    \cup {[NoFault EXCEPT !.write = {w}] :
            w \in ActiveChannelIds \X {today, today + 1} \X FailHours}

\* A call of generateHourlyForecasts (the forecast route, or any other caller).
GenerateHourlyForecasts ==
  /\ fcCall.seq < MaxCalls
  /\ \E channelId \in ChannelIds \cup {MissingChannel}, date \in {today, today + 1},
        skillId \in {NULL} \cup SkillIds, fail \in GenerateFaults :
       \E res \in {generateHourlyForecasts(forecasts, channelId, date, skillId, today,
                                           fail, dialect)} :
          /\ forecasts' = res.store
          /\ fcCall' = [op |-> "generateHourlyForecasts", seq |-> fcCall.seq + 1,
                        channelId |-> channelId, date |-> date, skillId |-> skillId,
                        threw |-> res.threw, error |-> res.error,
                        created |-> res.created, failedHours |-> res.failedHours,
                        fail |-> fail]
  /\ UNCHANGED <<today, dialect, scheduleVars, pureVars, assignVars, cronVars>>

\* The hourly cron callback's call of updateHourlyForecasts.
UpdateHourlyForecasts ==
  /\ fcCall.seq < MaxCalls
  /\ \E channels \in Orders(ActiveChannelIds), fail \in UpdateFaults :
       \E res \in {updateHourlyForecasts(forecasts, today, channels, fail, dialect)} :
          /\ forecasts' = res.store
          /\ fcCall' = [op |-> "updateHourlyForecasts", seq |-> fcCall.seq + 1,
                        threw |-> FALSE, caught |-> res.caught, calls |-> res.calls,
                        work |-> WorkList(channels, today), fail |-> fail]
  /\ UNCHANGED <<today, dialect, scheduleVars, pureVars, assignVars, cronVars>>

Next == GenerateHourlyForecasts \/ UpdateHourlyForecasts

Spec == Init /\ [][Next]_vars

(***************************************************************************)
(* calculatePredictedVolume and calculateRequiredAgents on their own: the   *)
(* arguments are drawn at the start and one step applies the function.     *)
(***************************************************************************)
IdleForecast ==
  /\ forecasts = <<>>
  /\ today = 1
  /\ fcCall = None
  /\ dialect = "sqlite"

SampleVolumes == {0, 7, 20}
SampleLists == UNION {[1..n -> SampleVolumes] : n \in 0..MaxSamples}
PredictHours == {8, 12}

\* The samples getHistoricalData would return for the volumes, newest first.
SamplesOf(volumes, date, hour) ==
  [i \in DOMAIN volumes |-> [date |-> date - i, volume |-> volumes[i], hour |-> hour]]

InitPredict ==
  /\ \E volumes \in SampleLists, date \in 1..(MaxDay + 1), hour \in PredictHours :
       predIn = [op |-> "calculatePredictedVolume", seq |-> 0,
                 historicalData |-> SamplesOf(volumes, date, hour),
                 seasonalFactors |-> getSeasonalFactors(date, hour),
                 externalFactors |-> getExternalFactors(date, hour)]
  /\ predOut = None
  /\ staffIn = None
  /\ staffOut = None
  /\ IdleAssign
  /\ IdleCron
  /\ IdleForecast
  /\ IdleSchedule

CalculatePredictedVolume ==
  /\ predOut = None
  /\ predOut' = calculatePredictedVolume(predIn.historicalData, predIn.seasonalFactors,
                                         predIn.externalFactors)
  /\ UNCHANGED <<forecastVars, dialect, scheduleVars, predIn, staffIn, staffOut,
               assignVars, cronVars>>

NextPredict == CalculatePredictedVolume

SpecPredict == InitPredict /\ [][NextPredict]_vars

\* Channel parameter sets: fractions between 0 and 1 (shrinkage below 1),
\* counts from 0 up; 0 also stands for a column left null.
StaffingVolumes == {0, 1, 20, 60}
StaffingChannels ==
  [id : {"c1"}, is_active : {TRUE},
   operating_hours_start : {480}, operating_hours_end : {600},
   average_handle_time : {0, 650}, wrap_up_time : {200},
   service_level_target : {0, 2000, 8000, 10000}, service_level_threshold : {20},
   shrinkage_factor : {0, 2500, 9900}, min_staffing_level : {0, 1, 2, 6},
   preferred_staffing_buffer : {0, 1000, 10000}]

InitStaffing ==
  /\ \E v \in StaffingVolumes, channel \in StaffingChannels :
       staffIn = [op |-> "calculateRequiredAgents", seq |-> 0,
                  predictedVolume |-> [volume |-> <<v, 1>>], channel |-> channel,
                  skillId |-> NULL]
  /\ staffOut = None
  /\ predIn = None
  /\ predOut = None
  /\ IdleAssign
  /\ IdleCron
  /\ IdleForecast
  /\ IdleSchedule

CalculateRequiredAgents ==
  /\ staffOut = None
  /\ staffOut' = calculateRequiredAgents(staffIn.predictedVolume, staffIn.channel,
                                         staffIn.skillId)
  /\ UNCHANGED <<forecastVars, dialect, scheduleVars, predIn, predOut, staffIn,
               assignVars, cronVars>>

NextStaffing == CalculateRequiredAgents

SpecStaffing == InitStaffing /\ [][NextStaffing]_vars

(***************************************************************************)
(* ScheduleOptimizer: the pure part.  A duration in hours is kept in        *)
(* minutes (60 for one hour), so that it stays an integer.                 *)
(***************************************************************************)
\* moment(...).format('HH:mm') of a time given in minutes from midnight.
Format(minutes) == minutes % 1440

calculateShiftHours(startTime, endTime) == endTime - startTime

\* The start is taken on the day after the end.
calculateTimeBetween(endTime, startTime) == (1440 + startTime) - endTime

getDefaultConstraints ==
  [max_consecutive_days |-> 5, min_days_off_per_week |-> 2, max_hours_per_day |-> 8,
   max_hours_per_week |-> 40, min_break_duration |-> 30, lunch_break_duration |-> 60,
   min_time_between_shifts |-> 8]

getDefaultOptimizationPreferences ==
  [prioritize_agent_preferences |-> TRUE, minimize_overtime |-> TRUE,
   balance_workload |-> TRUE, optimize_for_service_level |-> TRUE,
   allow_split_shifts |-> FALSE]

\* { ...defaults, ...overrides }
Spread(defaults, overrides) ==
  [k \in DOMAIN defaults \cup DOMAIN overrides |->
     IF k \in DOMAIN overrides THEN overrides[k] ELSE defaults[k]]

generateBreaks(startTime, endTime, constraints) ==
  IF calculateShiftHours(startTime, endTime) >= 4 * 60
  THEN [i \in 1..(calculateShiftHours(startTime, endTime) \div (4 * 60)) |->
          [start_time |-> Format(startTime + i * 4 * 60),
           end_time |-> Format(Format(startTime + i * 4 * 60)
                                 + OrDefault(constraints.min_break_duration, 15)),
           type |-> "break",
           duration |-> OrDefault(constraints.min_break_duration, 15)]]
  ELSE <<>>

\* null is <<>>, a lunch break is a one-element sequence.
generateLunchBreak(startTime, endTime, constraints) ==
  IF calculateShiftHours(startTime, endTime) >= 6 * 60
  THEN <<[start_time |-> Format(startTime + calculateShiftHours(startTime, endTime) \div 2),
          end_time |-> Format(Format(startTime
                                       + calculateShiftHours(startTime, endTime) \div 2)
                                + OrDefault(constraints.lunch_break_duration, 60)),
          type |-> "lunch",
          duration |-> OrDefault(constraints.lunch_break_duration, 60)]>>
  ELSE <<>>

RECURSIVE InsertDesc(_, _)
\* x placed in items, which are in descending key order, before the first item
\* whose key is not above x's.
InsertDesc(x, items) ==
  IF items = <<>> THEN <<x>>
  ELSE IF Head(items).key > x.key
  THEN <<Head(items)>> \o InsertDesc(x, Tail(items))
  ELSE <<x>> \o items

RECURSIVE StableSortDesc(_)
\* Array.prototype.sort((a, b) => b.key - a.key): descending, and stable.
StableSortDesc(items) ==
  IF items = <<>> THEN <<>>
  ELSE InsertDesc(Head(items), StableSortDesc(Tail(items)))

Values(items) == [i \in DOMAIN items |-> items[i].val]

RECURSIVE Ascending(_)
\* The members of a set of numbers in ascending order (Object.keys on
\* integer-like keys).
Ascending(S) ==
  IF S = {} THEN <<>>
  ELSE LET least == CHOOSE x \in S : \A y \in S : x <= y
       IN <<least>> \o Ascending(S \ {least})

\* An INTEGER column read back, with `|| 0`.
IntOrZero(x) == IF IsFinite(x) THEN x[1] \div x[2] ELSE 0

RECURSIVE TotalAgents(_, _)
TotalAgents(forecastRows, hour) ==
  IF forecastRows = <<>> THEN 0
  ELSE (IF Head(forecastRows).forecast_hour = hour
        THEN IntOrZero(Head(forecastRows).required_agents) ELSE 0)
         + TotalAgents(Tail(forecastRows), hour)

\* requirements[hour].totalAgents for the hours that have a forecast.
calculateHourlyRequirements(forecastRows) ==
  [hour \in {forecastRows[i].forecast_hour : i \in DOMAIN forecastRows} |->
     [totalAgents |-> TotalAgents(forecastRows, hour)]]

\* Math.ceil(n * 0.3)
TopThirty(n) == (3 * n + 9) \div 10

\* A ranking of the hours in which, of two hours with the same total, the
\* later one comes first.
findPeakHoursTiesLater(hourlyRequirements) ==
  SubSeq(Values(StableSortDesc(
           [i \in 1..Cardinality(DOMAIN hourlyRequirements) |->
              [key |-> hourlyRequirements[
                         Ascending(DOMAIN hourlyRequirements)[
                           Cardinality(DOMAIN hourlyRequirements) + 1 - i]].totalAgents,
               val |-> Ascending(DOMAIN hourlyRequirements)[
                         Cardinality(DOMAIN hourlyRequirements) + 1 - i]]])),
         1, TopThirty(Cardinality(DOMAIN hourlyRequirements)))

findPeakHours(hourlyRequirements) ==
  SubSeq(Values(StableSortDesc(
           [i \in 1..Cardinality(DOMAIN hourlyRequirements) |->
              [key |-> hourlyRequirements[Ascending(DOMAIN hourlyRequirements)[i]].totalAgents,
               val |-> Ascending(DOMAIN hourlyRequirements)[i]]])),
         1, TopThirty(Cardinality(DOMAIN hourlyRequirements)))

calculateShiftPriority(pattern, peakHours) ==
  Cardinality({i \in DOMAIN peakHours :
                 /\ peakHours[i] >= pattern.start \div 60
                 /\ peakHours[i] < pattern.end \div 60})

standardShifts ==
  <<[start |-> 8 * 60, end |-> 16 * 60, type |-> "morning"],
    [start |-> 9 * 60, end |-> 17 * 60, type |-> "day"],
    [start |-> 10 * 60, end |-> 18 * 60, type |-> "day"],
    [start |-> 12 * 60, end |-> 20 * 60, type |-> "afternoon"],
    [start |-> 14 * 60, end |-> 22 * 60, type |-> "evening"]>>

partTimeShifts ==
  <<[start |-> 8 * 60, end |-> 12 * 60, type |-> "part_time"],
    [start |-> 13 * 60, end |-> 17 * 60, type |-> "part_time"],
    [start |-> 18 * 60, end |-> 22 * 60, type |-> "part_time"]>>

WithPriority(patterns, peakHours) ==
  [i \in DOMAIN patterns |->
     [key |-> calculateShiftPriority(patterns[i], peakHours),
      val |-> [start |-> patterns[i].start, end |-> patterns[i].end,
               type |-> patterns[i].type,
               priority |-> calculateShiftPriority(patterns[i], peakHours)]]]

\* A catalogue that lists the part-time templates first.
generateShiftPatternsPartTimeFirst(hourlyRequirements, constraints) ==
  Values(StableSortDesc(WithPriority(partTimeShifts \o standardShifts,
                                     findPeakHours(hourlyRequirements))))

generateShiftPatterns(hourlyRequirements, constraints) ==
  Values(StableSortDesc(WithPriority(standardShifts \o partTimeShifts,
                                     findPeakHours(hourlyRequirements))))

(***************************************************************************)
(* The Agent table, in the order Agent.findAll returns it.  The core only  *)
(* reads it.  Scores are in ten-thousandths.                               *)
(***************************************************************************)
AgentTable ==
  <<[id |-> "a2", status |-> "active", customer_satisfaction_score |-> 0,
     first_call_resolution_rate |-> 0, can_work_weekends |-> FALSE,
     overtime_eligible |-> TRUE],
    [id |-> "a1", status |-> "active", customer_satisfaction_score |-> 450,
     first_call_resolution_rate |-> 8500, can_work_weekends |-> TRUE,
     overtime_eligible |-> TRUE],
    [id |-> "a3", status |-> "inactive", customer_satisfaction_score |-> 500,
     first_call_resolution_rate |-> 9000, can_work_weekends |-> TRUE,
     overtime_eligible |-> TRUE]>>
AgentIds == {AgentTable[i].id : i \in DOMAIN AgentTable}

\* An empty agentIds list selects every active agent.
getAvailableAgents(agentIds, startDate, endDate) ==
  LET selected(agent) == /\ agent.status = "active"
                         /\ (Len(agentIds) > 0 => agent.id \in Range(agentIds))
  IN SelectSeq(AgentTable, selected)

\* The read of the forecasts with the status filter left out.
getForecastDataAnyStatus(store, channelIds, startDate, endDate) ==
  LET selected(f) == /\ f.forecast_date >= startDate
                     /\ f.forecast_date <= endDate
                     /\ (Len(channelIds) > 0 => f.channel_id \in Range(channelIds))
  IN SelectSeq(store, selected)

getForecastData(store, channelIds, startDate, endDate) ==
  LET selected(f) == /\ f.forecast_date >= startDate
                     /\ f.forecast_date <= endDate
                     /\ f.status \in {"published", "approved"}
                     /\ (Len(channelIds) > 0 => f.channel_id \in Range(channelIds))
  IN SelectSeq(store, selected)

getTimeOffRequests(table, agentIds, startDate, endDate) ==
  {t \in table :
     /\ t.status \in {"approved", "pending_approval"}
     /\ \/ (t.start_date >= startDate /\ t.start_date <= endDate)
        \/ (t.end_date >= startDate /\ t.end_date <= endDate)
        \/ (t.start_date <= startDate /\ t.end_date >= endDate)
     /\ (Len(agentIds) > 0 => t.agent_id \in Range(agentIds))}

Score(agent) ==
  OrDefault(agent.customer_satisfaction_score, 300) * 100
    + OrDefault(agent.first_call_resolution_rate, 5000)
    + (IF agent.can_work_weekends THEN 2000 ELSE 0)
    + (IF agent.overtime_eligible THEN 1000 ELSE 0)

\* A ranking in which agents of equal score come out in reverse input order.
sortAgentsTiesReversed(agents) ==
  Values(StableSortDesc([i \in DOMAIN agents |->
                           [key |-> Score(agents[Len(agents) + 1 - i]),
                            val |-> agents[Len(agents) + 1 - i]]]))

sortAgentsBySuitability(agents) ==
  Values(StableSortDesc([i \in DOMAIN agents |->
                           [key |-> Score(agents[i]), val |-> agents[i]]]))

\* null is <<>>.
findSuitableAgents(agents, pattern, agentWorkload, constraints) ==
  LET suitable(agent) ==
        /\ ~(agentWorkload[agent.id].hoursAssigned
               + calculateShiftHours(pattern.start, pattern.end)
               > constraints.max_hours_per_week * 60)
        /\ (agentWorkload[agent.id].lastShiftEnd # <<>> =>
              ~(calculateTimeBetween(agentWorkload[agent.id].lastShiftEnd[1],
                                     pattern.start)
                  < constraints.min_time_between_shifts * 60))
  IN SelectSeq(agents, suitable)

\* The assignment of a pattern to an agent.
Assignment(agent, pattern) ==
  [agentId |-> agent.id, startTime |-> pattern.start, endTime |-> pattern.end,
   shiftType |-> IF calculateShiftHours(pattern.start, pattern.end) > 8 * 60
                 THEN "overtime" ELSE "regular",
   primaryChannelId |-> NULL, secondaryChannels |-> <<>>, requiredSkills |-> <<>>,
   expectedVolume |-> 0]

\* The workload bookkeeping after the pattern went to the agent.
Assigned(agentWorkload, agent, pattern) ==
  [agentWorkload EXCEPT ![agent.id] =
     [hoursAssigned |-> @.hoursAssigned + calculateShiftHours(pattern.start, pattern.end),
      shiftsAssigned |-> @.shiftsAssigned + 1,
      lastShiftEnd |-> <<pattern.end>>]]

RECURSIVE patternLoop(_, _, _, _, _)
RECURSIVE patternDone(_, _, _, _, _, _)
\* The rest of one iteration once the suitable agents are known.
patternDone(suitableAgents, shiftPatterns, sortedAgents, agentWorkload, constraints, assignments) ==
  IF Len(suitableAgents) > 0
  THEN patternLoop(Tail(shiftPatterns), sortedAgents,
                   Assigned(agentWorkload, suitableAgents[1], Head(shiftPatterns)),
                   constraints,
                   Append(assignments, Assignment(suitableAgents[1], Head(shiftPatterns))))
  ELSE patternLoop(Tail(shiftPatterns), sortedAgents, agentWorkload, constraints,
                   assignments)

\* The for loop of assignAgentsToShifts over the patterns still to assign.
patternLoop(shiftPatterns, sortedAgents, agentWorkload, constraints, assignments) ==
  IF shiftPatterns = <<>> THEN assignments
  ELSE patternDone(findSuitableAgents(sortedAgents, Head(shiftPatterns), agentWorkload,
                                      constraints),
                   shiftPatterns, sortedAgents, agentWorkload, constraints, assignments)

\* The workload map starts empty on every call, that is for every day.
assignAgentsToShifts(shiftPatterns, availableAgents, constraints) ==
  patternLoop(shiftPatterns, sortAgentsBySuitability(availableAgents),
              [id \in {availableAgents[i].id : i \in DOMAIN availableAgents} |->
                 [hoursAssigned |-> 0, shiftsAssigned |-> 0, lastShiftEnd |-> <<>>]],
              constraints, <<>>)

\* unavailableAgents with the status filter left out.
unavailableAgentsAnyStatus(timeOffRequests) ==
  {t.agent_id : t \in timeOffRequests}

\* The agents generateDailyShifts takes out for the day.
unavailableAgents(timeOffRequests) ==
  {t.agent_id : t \in {r \in timeOffRequests : r.status = "approved"}}

availableAgentsOf(agents, timeOffRequests) ==
  LET available(agent) == agent.id \notin unavailableAgents(timeOffRequests)
  IN SelectSeq(agents, available)

ShiftOf(assignment, date, constraints) ==
  [agent_id |-> assignment.agentId, shift_date |-> date,
   start_time |-> assignment.startTime, end_time |-> assignment.endTime,
   primary_channel_id |-> assignment.primaryChannelId,
   secondary_channels |-> assignment.secondaryChannels,
   required_skills |-> assignment.requiredSkills,
   expected_volume |-> assignment.expectedVolume,
   shift_type |-> assignment.shiftType,
   breaks |-> generateBreaks(assignment.startTime, assignment.endTime, constraints),
   lunch_break |-> generateLunchBreak(assignment.startTime, assignment.endTime,
                                      constraints)]

ShiftsOf(assignments, date, constraints) ==
  [i \in DOMAIN assignments |-> ShiftOf(assignments[i], date, constraints)]

generateDailyShifts(date, agents, forecastRows, timeOffRequests, constraints) ==
  IF Len(availableAgentsOf(agents, timeOffRequests)) = 0 THEN <<>>
  ELSE ShiftsOf(assignAgentsToShifts(
                  generateShiftPatterns(calculateHourlyRequirements(forecastRows),
                                        constraints),
                  availableAgentsOf(agents, timeOffRequests), constraints),
                date, constraints)

\* forecasts.filter(f => f.forecast_date === dateString)
ForecastsOn(forecastRows, date) ==
  LET onDate(f) == f.forecast_date = date IN SelectSeq(forecastRows, onDate)

\* timeOffRequests.filter(t => dateString >= t.start_date && dateString <= t.end_date)
TimeOffOn(timeOffRequests, date) ==
  {t \in timeOffRequests : date >= t.start_date /\ date <= t.end_date}

RECURSIVE dayLoop(_, _, _, _, _, _, _)
\* The while loop of generateOptimizedSchedule from currentDate on.
dayLoop(currentDate, endDate, agents, forecastRows, timeOffRequests, constraints, allShifts) ==
  IF currentDate > endDate THEN allShifts
  ELSE dayLoop(currentDate + 1, endDate, agents, forecastRows, timeOffRequests,
               constraints,
               allShifts \o generateDailyShifts(currentDate, agents,
                                                ForecastsOn(forecastRows, currentDate),
                                                TimeOffOn(timeOffRequests, currentDate),
                                                constraints))

\* A workload balancing that hands the shifts back in reverse order.
balanceWorkloadReversed(shiftList) ==
  [k \in DOMAIN shiftList |-> shiftList[Len(shiftList) + 1 - k]]

\* The four strategies of the optimizer: each returns the shifts as they are.
balanceWorkload(shiftList) == shiftList
minimizeOvertime(shiftList) == shiftList
optimizeForAgentPreferences(shiftList) == shiftList
optimizeForServiceLevel(shiftList) == shiftList

\* The strategies the schedule's preferences switch on, one after the other.
optimizeSchedule(allShifts, schedule) ==
  LET preferences == schedule.optimization_preferences
      balanced == IF preferences.balance_workload
                  THEN balanceWorkload(allShifts) ELSE allShifts
      minimized == IF preferences.minimize_overtime
                   THEN minimizeOvertime(balanced) ELSE balanced
      preferred == IF preferences.prioritize_agent_preferences
                   THEN optimizeForAgentPreferences(minimized) ELSE minimized
  IN IF preferences.optimize_for_service_level
     THEN optimizeForServiceLevel(preferred) ELSE preferred

(***************************************************************************)
(* The Schedule and Shift tables, and generateOptimizedSchedule.           *)
(***************************************************************************)
\* The values of the Schedule model's status ENUM.
ScheduleStatuses == {"draft", "published", "active", "completed", "cancelled"}

\* Schedule.create of generateOptimizedSchedule, once beforeValidate let the
\* period pass; the hook names the schedule after its type and start date.
NewSchedule(id, scheduleData) ==
  [id |-> id, type |-> scheduleData.type,
   start_date |-> scheduleData.startDate, end_date |-> scheduleData.endDate,
   constraints |-> Spread(getDefaultConstraints, scheduleData.constraints),
   optimization_preferences |->
     Spread(getDefaultOptimizationPreferences, scheduleData.optimizationPreferences),
   status |-> "draft", service_level_achieved |-> <<>>]

\* schedule.update({..., status}).  A value outside the ENUM is refused by
\* PostgreSQL, whose column has the enum type, and stored as it is by SQLite,
\* whose column is text.
ScheduleUpdate(store, id, status, db) ==
  IF status \notin ScheduleStatuses /\ db = "postgres"
  THEN [ok |-> FALSE, store |-> store]
  ELSE [ok |-> TRUE,
        store |-> [store EXCEPT ![id] = [@ EXCEPT !.status = status,
                                                  !.service_level_achieved = <<85>>]]]

\* The shifts of the period: the reads, then the loop over the days.
planShifts(forecastStore, timeOffTable, scheduleData, constraints) ==
  dayLoop(scheduleData.startDate, scheduleData.endDate,
          getAvailableAgents(scheduleData.agentIds, scheduleData.startDate,
                             scheduleData.endDate),
          getForecastData(forecastStore, scheduleData.channelIds,
                          scheduleData.startDate, scheduleData.endDate),
          getTimeOffRequests(timeOffTable, scheduleData.agentIds,
                             scheduleData.startDate, scheduleData.endDate),
          constraints, <<>>)

RECURSIVE saveLoop(_, _, _, _, _)
\* The loop of Shift.create calls from the k-th shift on.  fail.shift is the
\* index of the INSERT that fails (0: none); Shift's beforeValidate refuses an
\* end time that is not after the start time.
saveLoop(optimizedShifts, k, shiftStore, scheduleId, fail) ==
  IF k > Len(optimizedShifts)
  THEN [shifts |-> shiftStore, saved |-> k - 1, threw |-> FALSE]
  ELSE IF fail.shift = k \/ optimizedShifts[k].end_time <= optimizedShifts[k].start_time
  THEN [shifts |-> shiftStore, saved |-> k - 1, threw |-> TRUE]
  ELSE saveLoop(optimizedShifts, k + 1,
                Append(shiftStore,
                       Spread(optimizedShifts[k],
                              [schedule_id |-> scheduleId, status |-> "scheduled"])),
                scheduleId, fail)

\* An end of generateOptimizedSchedule that goes on to the status update
\* although a Shift.create threw.
scheduleSavedDespiteFailure(saved, updated, scheduleStore, scheduleId, allShifts) ==
  IF ~updated.ok
  THEN [schedules |-> scheduleStore, shifts |-> saved.shifts, threw |-> TRUE,
        error |-> "schedule.update", scheduleId |-> scheduleId, allShifts |-> allShifts,
        saved |-> saved.saved, statuses |-> <<"draft">>]
  ELSE [schedules |-> updated.store, shifts |-> saved.shifts, threw |-> FALSE,
        error |-> "", scheduleId |-> scheduleId, allShifts |-> allShifts,
        saved |-> saved.saved, statuses |-> <<"draft", "generated">>]

\* The end of generateOptimizedSchedule: the metrics and the status update.
scheduleSaved(saved, updated, scheduleStore, scheduleId, allShifts) ==
  IF saved.threw
  THEN [schedules |-> scheduleStore, shifts |-> saved.shifts, threw |-> TRUE,
        error |-> "Shift.create", scheduleId |-> scheduleId, allShifts |-> allShifts,
        saved |-> saved.saved, statuses |-> <<"draft">>]
  ELSE IF ~updated.ok
  THEN [schedules |-> scheduleStore, shifts |-> saved.shifts, threw |-> TRUE,
        error |-> "schedule.update", scheduleId |-> scheduleId, allShifts |-> allShifts,
        saved |-> saved.saved, statuses |-> <<"draft">>]
  ELSE [schedules |-> updated.store, shifts |-> saved.shifts, threw |-> FALSE,
        error |-> "", scheduleId |-> scheduleId, allShifts |-> allShifts,
        saved |-> saved.saved, statuses |-> <<"draft", "generated">>]

\* generateOptimizedSchedule after Schedule.create.  fail.read names the read
\* that throws ("none": none).
scheduleCreated(scheduleStore, scheduleId, allShifts, shiftStore, fail, db) ==
  scheduleSaved(saveLoop(optimizeSchedule(allShifts, scheduleStore[scheduleId]), 1,
                         shiftStore, scheduleId, fail),
                ScheduleUpdate(scheduleStore, scheduleId, "generated", db),
                scheduleStore, scheduleId, allShifts)

\* generateOptimizedSchedule going on after a read that failed, as if the read
\* had gone through.
generateOptimizedScheduleDespiteReads(scheduleStore, shiftStore, forecastStore, timeOffTable, scheduleData, fail, db) ==
  IF scheduleData.endDate <= scheduleData.startDate
  THEN [schedules |-> scheduleStore, shifts |-> shiftStore, threw |-> TRUE,
        error |-> "End date must be after start date", scheduleId |-> 0,
        allShifts |-> <<>>, saved |-> 0, statuses |-> <<>>]
  ELSE scheduleCreated(
         Append(scheduleStore, NewSchedule(Len(scheduleStore) + 1, scheduleData)),
         Len(scheduleStore) + 1,
         planShifts(forecastStore, timeOffTable, scheduleData,
                    Spread(getDefaultConstraints, scheduleData.constraints)),
         shiftStore, fail, db)

generateOptimizedSchedule(scheduleStore, shiftStore, forecastStore, timeOffTable, scheduleData, fail, db) ==
  IF scheduleData.endDate <= scheduleData.startDate
  THEN [schedules |-> scheduleStore, shifts |-> shiftStore, threw |-> TRUE,
        error |-> "End date must be after start date", scheduleId |-> 0,
        allShifts |-> <<>>, saved |-> 0, statuses |-> <<>>]
  ELSE IF fail.read # "none"
  THEN [schedules |-> Append(scheduleStore,
                             NewSchedule(Len(scheduleStore) + 1, scheduleData)),
        shifts |-> shiftStore, threw |-> TRUE, error |-> fail.read,
        scheduleId |-> Len(scheduleStore) + 1, allShifts |-> <<>>, saved |-> 0,
        statuses |-> <<"draft">>]
  ELSE scheduleCreated(
         Append(scheduleStore, NewSchedule(Len(scheduleStore) + 1, scheduleData)),
         Len(scheduleStore) + 1,
         planShifts(forecastStore, timeOffTable, scheduleData,
                    Spread(getDefaultConstraints, scheduleData.constraints)),
         shiftStore, fail, db)

(***************************************************************************)
(* The shift optimization engine as a state machine.                       *)
(***************************************************************************)
MaxSchedules == 1
MaxTimeOff == 2

\* Forecast tables the forecasting flows leave behind: nothing published, or
\* published and approved rows whose busiest hour is 18 (and a row not yet
\* published).
PublishedRow(channelId, date, hour, agents) ==
  [SeedRow(channelId, date, hour, <<>>) EXCEPT !.required_agents = <<agents, 1>>]
ForecastTables ==
  {<<>>,
   <<PublishedRow("c1", 1, 8, 2), PublishedRow("c1", 1, 18, 9),
     [PublishedRow("c2", 1, 9, 3) EXCEPT !.status = "approved"],
     [PublishedRow("c1", 1, 12, 20) EXCEPT !.status = "generated"]>>}

\* TimeOff records the request flows leave behind.
TimeOffRecords ==
  [agent_id : {"a1", "a2"}, start_date : {0, 2}, end_date : {2, 4},
   status : {"approved", "pending_approval"}]
TimeOffTables == {T \in SUBSET TimeOffRecords : Cardinality(T) <= MaxTimeOff}

ConstraintOverrides == {<<>>, [max_hours_per_week |-> 16]}
NoScheduleFault == [read |-> "none", shift |-> 0]
ScheduleFaults ==
  {NoScheduleFault} \cup {[NoScheduleFault EXCEPT !.read = r] :
                            r \in {"getAvailableAgents", "getForecastData",
                                   "getTimeOffRequests"}}
                    \cup {[NoScheduleFault EXCEPT !.shift = k] : k \in {1, 7}}

InitSchedule ==
  /\ forecasts \in ForecastTables
  /\ timeOffs \in TimeOffTables
  /\ dialect \in Dialects
  /\ schedules = <<>>
  /\ shifts = <<>>
  /\ genCall = None
  /\ today = 1
  /\ fcCall = None
  /\ IdlePure

\* A call of generateOptimizedSchedule.
GenerateOptimizedSchedule ==
  /\ genCall.seq < MaxSchedules
  /\ \E startDate \in 1..(MaxDay + 1), endDate \in 1..(MaxDay + 1),
        agentIds \in {<<>>, <<"a2", "a3">>}, channelIds \in {<<>>, <<"c2">>},
        constraints \in ConstraintOverrides, fail \in ScheduleFaults :
       \E scheduleData \in {[type |-> "weekly", startDate |-> startDate,
                             endDate |-> endDate, agentIds |-> agentIds,
                             channelIds |-> channelIds, constraints |-> constraints,
                             optimizationPreferences |-> <<>>]} :
         \E res \in {generateOptimizedSchedule(schedules, shifts, forecasts, timeOffs,
                                               scheduleData, fail, dialect)} :
           /\ schedules' = res.schedules
           /\ shifts' = res.shifts
           /\ genCall' = [op |-> "generateOptimizedSchedule", seq |-> genCall.seq + 1,
                          scheduleData |-> scheduleData, fail |-> fail,
                          threw |-> res.threw, error |-> res.error,
                          scheduleId |-> res.scheduleId, allShifts |-> res.allShifts,
                          saved |-> res.saved, statuses |-> res.statuses]
  /\ UNCHANGED <<forecasts, today, fcCall, dialect, timeOffs, pureVars, assignVars,
               cronVars>>

NextSchedule == GenerateOptimizedSchedule

SpecSchedule == InitSchedule /\ [][NextSchedule]_vars

(***************************************************************************)
(* assignAgentsToShifts on its own: the arguments are drawn at the start   *)
(* and one step applies the function.                                      *)
(***************************************************************************)
\* Agents as getAvailableAgents returns them; x1 and x2 score the same from
\* different columns, x3 has its score columns null.
AssignPool ==
  {[id |-> "x1", status |-> "active", customer_satisfaction_score |-> 400,
    first_call_resolution_rate |-> 8000, can_work_weekends |-> TRUE,
    overtime_eligible |-> FALSE],
   [id |-> "x2", status |-> "active", customer_satisfaction_score |-> 420,
    first_call_resolution_rate |-> 6000, can_work_weekends |-> TRUE,
    overtime_eligible |-> FALSE],
   [id |-> "x3", status |-> "active", customer_satisfaction_score |-> 0,
    first_call_resolution_rate |-> 0, can_work_weekends |-> FALSE,
    overtime_eligible |-> TRUE]}

\* Every list of distinct agents of the pool, the empty list included.
AssignAgentLists == UNION {Orders(A) : A \in SUBSET AssignPool}

\* Ranked templates as generateShiftPatterns hands them over: without
\* forecasts, with the forecasts of a day, and no template at all.
AssignPatternLists ==
  {<<>>,
   generateShiftPatterns(calculateHourlyRequirements(<<>>), getDefaultConstraints),
   generateShiftPatterns(
     calculateHourlyRequirements(
       <<PublishedRow("c1", 1, 8, 2), PublishedRow("c1", 1, 18, 9),
         PublishedRow("c2", 1, 9, 3)>>),
     getDefaultConstraints)}

AssignConstraints ==
  {getDefaultConstraints,
   Spread(getDefaultConstraints, [max_hours_per_week |-> 16]),
   Spread(getDefaultConstraints, [min_time_between_shifts |-> 18])}

InitAssign ==
  /\ \E shiftPatterns \in AssignPatternLists, availableAgents \in AssignAgentLists,
        constraints \in AssignConstraints :
       assignIn = [op |-> "assignAgentsToShifts", seq |-> 0,
                   shiftPatterns |-> shiftPatterns,
                   availableAgents |-> availableAgents, constraints |-> constraints]
  /\ assignOut = None
  /\ optIn = None
  /\ optOut = None
  /\ predIn = None
  /\ predOut = None
  /\ staffIn = None
  /\ staffOut = None
  /\ IdleCron
  /\ IdleForecast
  /\ IdleSchedule

AssignAgentsToShifts ==
  /\ assignOut = None
  /\ assignOut' = [op |-> "assignAgentsToShifts", seq |-> 1,
                   assignments |-> assignAgentsToShifts(assignIn.shiftPatterns,
                                                        assignIn.availableAgents,
                                                        assignIn.constraints)]
  /\ UNCHANGED <<forecastVars, dialect, scheduleVars, pureVars, assignIn, optIn,
               optOut, cronVars>>

NextAssign == AssignAgentsToShifts

SpecAssign == InitAssign /\ [][NextAssign]_vars


(***************************************************************************)
(* findPeakHours, generateShiftPatterns and optimizeSchedule on their own: *)
(* the arguments are drawn at the start and one step applies the function. *)
(***************************************************************************)
\* Hourly requirements as calculateHourlyRequirements builds them: any set of
\* these hours, each with one of two totals.
RequirementSets ==
  UNION {[H -> [totalAgents : {2, 5}]] : H \in SUBSET {8, 9, 10, 12, 17, 18, 21}}

\* Shift lists as the day loop hands them to optimizeSchedule: none, and the
\* shifts of one day for the active agents.
OptimizeShiftLists ==
  {<<>>,
   generateDailyShifts(1, getAvailableAgents(<<>>, 1, 2), <<>>, {},
                       getDefaultConstraints)}

\* Every setting of the four strategy switches.
PreferenceSets ==
  [prioritize_agent_preferences : BOOLEAN, minimize_overtime : BOOLEAN,
   balance_workload : BOOLEAN, optimize_for_service_level : BOOLEAN,
   allow_split_shifts : {FALSE}]

InitOptimizer ==
  /\ optIn \in
       {[op |-> "findPeakHours", seq |-> 0, hourlyRequirements |-> r] :
          r \in RequirementSets}
         \cup {[op |-> "generateShiftPatterns", seq |-> 0, hourlyRequirements |-> r,
                constraints |-> getDefaultConstraints] : r \in RequirementSets}
         \cup {[op |-> "optimizeSchedule", seq |-> 0, shifts |-> shiftList,
                schedule |-> NewSchedule(1, [type |-> "weekly", startDate |-> 1,
                                             endDate |-> 2, constraints |-> <<>>,
                                             optimizationPreferences |-> p])] :
                 shiftList \in OptimizeShiftLists, p \in PreferenceSets}
  /\ optOut = None
  /\ assignIn = None
  /\ assignOut = None
  /\ predIn = None
  /\ predOut = None
  /\ staffIn = None
  /\ staffOut = None
  /\ IdleCron
  /\ IdleForecast
  /\ IdleSchedule

FindPeakHours ==
  /\ optIn.op = "findPeakHours"
  /\ optOut = None
  /\ optOut' = [op |-> "findPeakHours", seq |-> 1,
                peakHours |-> findPeakHours(optIn.hourlyRequirements)]
  /\ UNCHANGED <<forecastVars, dialect, scheduleVars, pureVars, assignIn, assignOut,
               optIn, cronVars>>

GenerateShiftPatterns ==
  /\ optIn.op = "generateShiftPatterns"
  /\ optOut = None
  /\ optOut' = [op |-> "generateShiftPatterns", seq |-> 1,
                patterns |-> generateShiftPatterns(optIn.hourlyRequirements,
                                                   optIn.constraints)]
  /\ UNCHANGED <<forecastVars, dialect, scheduleVars, pureVars, assignIn, assignOut,
               optIn, cronVars>>

OptimizeSchedule ==
  /\ optIn.op = "optimizeSchedule"
  /\ optOut = None
  /\ optOut' = [op |-> "optimizeSchedule", seq |-> 1,
                shifts |-> optimizeSchedule(optIn.shifts, optIn.schedule)]
  /\ UNCHANGED <<forecastVars, dialect, scheduleVars, pureVars, assignIn, assignOut,
               optIn, cronVars>>

NextOptimizer == FindPeakHours \/ GenerateShiftPatterns \/ OptimizeSchedule

SpecOptimizer == InitOptimizer /\ [][NextOptimizer]_vars

(***************************************************************************)
(* The scheduled tasks of the server: the hourly forecast update and the   *)
(* daily schedule optimization, with the reoptimization they call.         *)
(***************************************************************************)
MaxRuns == 2

\* Every strategy stub: no opportunity is ever identified.
identifyOptimizationOpportunities(shiftRows, forecastRows) == <<>>

\* optimizeIntraday for one schedule.  fail.shifts and fail.forecasts hold the
\* ids of the schedules for which Shift.findAll and Forecast.findAll throw;
\* nothing in optimizeIntraday catches.
optimizeIntraday(schedule, date, shiftStore, forecastStore, fail) ==
  IF schedule.id \in fail.shifts \/ schedule.id \in fail.forecasts
  THEN [threw |-> TRUE, applied |-> <<>>]
  ELSE [threw |-> FALSE,
        applied |->
          identifyOptimizationOpportunities(
            SelectSeq(shiftStore,
                      LAMBDA sh : /\ sh.schedule_id = schedule.id
                                  /\ sh.shift_date = date
                                  /\ sh.status \in {"scheduled", "confirmed",
                                                    "in_progress"}),
            SelectSeq(forecastStore,
                      LAMBDA f : /\ f.forecast_date = date
                                 /\ f.status \in {"published", "approved"}))]

\* The query of optimizeDailySchedules: the schedules that are active or
\* published and whose period holds today, in table order.
ActiveSchedules(scheduleStore, now) ==
  SelectSeq(scheduleStore,
            LAMBDA sc : /\ sc.status \in {"active", "published"}
                        /\ sc.start_date <= now
                        /\ sc.end_date >= now)

RECURSIVE scheduleLoop(_, _, _, _, _, _)
RECURSIVE intradayDone(_, _, _, _, _, _, _)
\* The rest of one iteration once optimizeIntraday has returned or thrown: a
\* throw leaves the loop for the catch of optimizeDailySchedules.
intradayDone(res, active, processed, date, shiftStore, forecastStore, fail) ==
  IF res.threw
  THEN [processed |-> processed, caught |-> TRUE, failedOn |-> {Head(active).id}]
  ELSE scheduleLoop(Tail(active), Append(processed, Head(active).id), date,
                    shiftStore, forecastStore, fail)

\* The for loop of optimizeDailySchedules over the schedules still to do.
scheduleLoop(active, processed, date, shiftStore, forecastStore, fail) ==
  IF active = <<>>
  THEN [processed |-> processed, caught |-> FALSE, failedOn |-> {}]
  ELSE intradayDone(optimizeIntraday(Head(active), date, shiftStore, forecastStore,
                                     fail),
                    active, processed, date, shiftStore, forecastStore, fail)

\* optimizeDailySchedules.  fail.schedules: Schedule.findAll throws.  Whatever
\* is thrown inside the try is caught and logged.
optimizeDailySchedules(scheduleStore, shiftStore, forecastStore, now, fail) ==
  IF fail.schedules
  THEN [processed |-> <<>>, caught |-> TRUE, failedOn |-> {}]
  ELSE scheduleLoop(ActiveSchedules(scheduleStore, now), <<>>, now, shiftStore,
                    forecastStore, fail)

\* A task callback without its try and catch.
cronTaskUncaught(innerThrew, event, emitFails) ==
  IF innerThrew THEN [trace |-> <<"call">>, threw |-> TRUE]
  ELSE IF emitFails THEN [trace |-> <<"call", "return">>, threw |-> TRUE]
  ELSE [trace |-> <<"call", "return", event>>, threw |-> FALSE]

\* A task callback that emits before it awaits the call.
cronTaskEmitFirst(innerThrew, event, emitFails) ==
  IF emitFails THEN [trace |-> <<"catch">>, threw |-> FALSE]
  ELSE IF innerThrew THEN [trace |-> <<event, "call", "catch">>, threw |-> FALSE]
  ELSE [trace |-> <<event, "call", "return">>, threw |-> FALSE]

\* The callback of a scheduled task: the awaited call, then io.emit of the
\* event, all inside a try whose catch logs.  innerThrew: the call threw;
\* emitFails: io.emit threw.
cronTask(innerThrew, event, emitFails) ==
  IF innerThrew THEN [trace |-> <<"call", "catch">>, threw |-> FALSE]
  ELSE IF emitFails THEN [trace |-> <<"call", "return", "catch">>, threw |-> FALSE]
  ELSE [trace |-> <<"call", "return", event>>, threw |-> FALSE]

\* Schedules the publishing flows leave behind.
CronSchedule(id, status, startDate, endDate) ==
  [NewSchedule(id, [type |-> "weekly", startDate |-> startDate,
                    endDate |-> endDate, constraints |-> <<>>,
                    optimizationPreferences |-> <<>>])
     EXCEPT !.status = status]
CronScheduleTables ==
  {<<>>,
   <<CronSchedule(1, "published", 0, 6)>>,
   <<CronSchedule(1, "published", 0, 6), CronSchedule(2, "active", 1, 3)>>,
   <<CronSchedule(1, "draft", 0, 6), CronSchedule(2, "published", 0, 6),
     CronSchedule(3, "active", 3, 6)>>}

\* The storage failures of one daily run: none, or the schedule query, or one
\* read of optimizeIntraday for one schedule.
DailyFaults ==
  {f \in [schedules : BOOLEAN, shifts : SUBSET (1..2), forecasts : SUBSET (1..2)] :
     (IF f.schedules THEN 1 ELSE 0) + Cardinality(f.shifts)
       + Cardinality(f.forecasts) <= 1}

\* The storage failures of one hourly run: those of updateHourlyForecasts, with
\* the failing INSERT, if any, on the first row of the run.
CronUpdateFaults ==
  {f \in UpdateFaults : \A w \in f.write : w[2] = today /\ w[3] = 8}

InitCron ==
  /\ forecasts = <<SeedRow("c1", 0, 8, <<20>>)>>
  /\ today \in 1..MaxDay
  /\ fcCall = None
  /\ dialect \in Dialects
  /\ schedules \in CronScheduleTables
  /\ shifts = <<>>
  /\ timeOffs = {}
  /\ genCall = None
  /\ IdlePure

\* The hourly task ('0 * * * *'): updateHourlyForecasts, then forecast-updated.
\* A callback that throws is an unhandled rejection, which ends the process.
HourlyForecastUpdate ==
  /\ alive
  /\ Len(cronRuns) < MaxRuns
  /\ \E channels \in Orders(ActiveChannelIds), fail \in CronUpdateFaults,
        emitFails \in BOOLEAN :
       \E res \in {updateHourlyForecasts(forecasts, today, channels, fail, dialect)} :
         \E task \in {cronTask(FALSE, "forecast-updated", emitFails)} :
           /\ forecasts' = res.store
           /\ fcCall' = [op |-> "updateHourlyForecasts", seq |-> fcCall.seq + 1,
                         threw |-> FALSE, caught |-> res.caught, calls |-> res.calls,
                         work |-> WorkList(channels, today), fail |-> fail]
           /\ cronRuns' = Append(cronRuns,
                                 [job |-> "hourly", event |-> "forecast-updated",
                                  trace |-> task.trace, threw |-> task.threw,
                                  caught |-> res.caught, emitFails |-> emitFails])
           /\ alive' = ~task.threw
  /\ UNCHANGED <<today, dialect, scheduleVars, pureVars, assignVars>>

\* The daily task ('0 2 * * *'): optimizeDailySchedules, then
\* schedules-optimized.
DailyScheduleOptimization ==
  /\ alive
  /\ Len(cronRuns) < MaxRuns
  /\ \E fail \in DailyFaults, emitFails \in BOOLEAN :
       \E res \in {optimizeDailySchedules(schedules, shifts, forecasts, today, fail)} :
         \E task \in {cronTask(FALSE, "schedules-optimized", emitFails)} :
           /\ cronRuns' = Append(cronRuns,
                                 [job |-> "daily", event |-> "schedules-optimized",
                                  trace |-> task.trace, threw |-> task.threw,
                                  caught |-> res.caught, emitFails |-> emitFails,
                                  fail |-> fail, processed |-> res.processed,
                                  failedOn |-> res.failedOn,
                                  active |-> ActiveSchedules(schedules, today)])
           /\ alive' = ~task.threw
  /\ UNCHANGED <<forecastVars, dialect, scheduleVars, pureVars, assignVars>>

NextCron == HourlyForecastUpdate \/ DailyScheduleOptimization

SpecCron == InitCron /\ [][NextCron]_vars

(***************************************************************************)
(* Properties of the forecasting engine, checked under Spec.               *)
(***************************************************************************)
OperatingHours(channel) == {h \in 0..23 : isOperatingHour(h, channel)}

\* C1: after any sequence of generateHourlyForecasts and updateHourlyForecasts
\* calls, the Forecast table holds at most one record for each key (channel,
\* skill, date, hour).
C1_OneRecordPerKey ==
  \A i, j \in DOMAIN forecasts :
    ForecastKey(forecasts[i]) = ForecastKey(forecasts[j]) => i = j

\* The only writes that fail in the last call are the ones the storage failed:
\* the deployment is on SQLite, which takes every value the core writes, and
\* no skill is given, so that the unique index refuses nothing.
OnlyStorageFailures == dialect = "sqlite" /\ (fcCall.op = "generateHourlyForecasts" => fcCall.skillId = NULL)

\* C4: when processing one operating hour fails in generateHourlyForecasts (its
\* history read, or the write of its record), the records of all the other
\* operating hours of the call are created and stored.
C4_HourFailureKeepsOtherHours ==
  (/\ fcCall.op = "generateHourlyForecasts"
   /\ fcCall.channelId \in ChannelIds
   /\ OnlyStorageFailures) =>
    \A h \in OperatingHours(ChannelTable[fcCall.channelId]) \ fcCall.fail.write :
      /\ \E i \in DOMAIN fcCall.created : fcCall.created[i].forecast_hour = h
      /\ \E i \in DOMAIN forecasts :
           /\ forecasts[i].channel_id = fcCall.channelId
           /\ forecasts[i].forecast_date = fcCall.date
           /\ forecasts[i].forecast_hour = h
           /\ forecasts[i].status = "generated"

\* C5: in updateHourlyForecasts, a failure in generating one channel and date
\* leaves generation running for every other active channel and date of the
\* run, and nothing is thrown to the caller.
C5_ChannelFailureIsolated ==
  (/\ fcCall.op = "updateHourlyForecasts"
   /\ ~fcCall.fail.channels
   /\ OnlyStorageFailures) =>
    /\ ~fcCall.threw
    /\ \A k \in DOMAIN fcCall.work :
         \E i \in DOMAIN fcCall.calls :
           /\ fcCall.calls[i].channelId = fcCall.work[k][1]
           /\ fcCall.calls[i].date = fcCall.work[k][2]

(***************************************************************************)
(* Properties of the pure functions, checked under SpecPredict and         *)
(* SpecStaffing.                                                           *)
(***************************************************************************)
\* C7: for every list of samples with non-negative volumes (empty or not, a
\* mean of 0 included) and positive factors, calculatePredictedVolume returns
\* defined numbers with minVolume <= volume <= maxVolume and
\* 0.30 <= confidence <= 0.95.
C7_PredictionWithinBounds ==
  predOut # None =>
    /\ IsFinite(predOut.volume) /\ IsFinite(predOut.confidence)
    /\ IsFinite(predOut.minVolume) /\ IsFinite(predOut.maxVolume)
    /\ RatLE(predOut.minVolume, predOut.volume)
    /\ RatLE(predOut.volume, predOut.maxVolume)
    /\ RatLE(<<30, 100>>, predOut.confidence)
    /\ RatLE(predOut.confidence, <<95, 100>>)

Planned ==
  /\ genCall.op = "generateOptimizedSchedule"
  /\ genCall.scheduleId # 0
  /\ genCall.fail.read = "none"

CallConstraints == Spread(getDefaultConstraints, genCall.scheduleData.constraints)
CallDates == genCall.scheduleData.startDate..genCall.scheduleData.endDate

\* Weeks run from Sunday to Saturday; day 0 is a Sunday.
WeekOf(date) == date \div 7

RECURSIVE AssignedMinutes(_, _, _)
\* The minutes of the agent's shifts on the dates of the week.
AssignedMinutes(shiftList, agentId, week) ==
  IF shiftList = <<>> THEN 0
  ELSE (IF Head(shiftList).agent_id = agentId /\ WeekOf(Head(shiftList).shift_date) = week
        THEN Head(shiftList).end_time - Head(shiftList).start_time ELSE 0)
         + AssignedMinutes(Tail(shiftList), agentId, week)

\* C2: in the shifts one generateOptimizedSchedule call produces, the hours of
\* every agent within a week, summed over the dates of that week in the
\* period, are at most constraints.max_hours_per_week.
C2_WeeklyHoursWithinMaximum ==
  Planned =>
    \A agentId \in AgentIds, date \in CallDates :
      AssignedMinutes(genCall.allShifts, agentId, WeekOf(date))
        <= CallConstraints.max_hours_per_week * 60

\* A break or lunch window lies inside the shift.
WindowInside(window, shift) ==
  /\ shift.start_time <= window.start_time
  /\ window.start_time < window.end_time
  /\ window.end_time <= shift.end_time

\* C3: every break window and the lunch window of every shift that
\* generateDailyShifts produces lies inside the shift's interval from
\* start_time to end_time.
C3_BreaksInsideShift ==
  Planned =>
    \A i \in DOMAIN genCall.allShifts :
      /\ \A b \in DOMAIN genCall.allShifts[i].breaks :
           WindowInside(genCall.allShifts[i].breaks[b], genCall.allShifts[i])
      /\ \A l \in DOMAIN genCall.allShifts[i].lunch_break :
           WindowInside(genCall.allShifts[i].lunch_break[l], genCall.allShifts[i])

\* C6: a generateOptimizedSchedule call whose reads and shift writes all
\* succeed creates the Schedule as draft and ends with it stored as generated,
\* a status the Schedule record accepts; draft to generated is the only status
\* change.
C6_DraftToGenerated ==
  (Planned /\ genCall.fail = NoScheduleFault) =>
    /\ ~genCall.threw
    /\ genCall.statuses = <<"draft", "generated">>
    /\ schedules[genCall.scheduleId].status = "generated"
    /\ schedules[genCall.scheduleId].status \in ScheduleStatuses

ShiftStart(shift) == shift.shift_date * 1440 + shift.start_time
ShiftEnd(shift) == shift.shift_date * 1440 + shift.end_time

\* Shift i of the list starts before shift j (the earlier one in the list
\* first when they start together).
StartsBefore(shiftList, i, j) ==
  \/ ShiftStart(shiftList[i]) < ShiftStart(shiftList[j])
  \/ (ShiftStart(shiftList[i]) = ShiftStart(shiftList[j]) /\ i < j)

\* Shift j is the next shift of the agent of shift i.
NextShiftOfAgent(shiftList, i, j) ==
  /\ shiftList[i].agent_id = shiftList[j].agent_id
  /\ StartsBefore(shiftList, i, j)
  /\ ~\E k \in DOMAIN shiftList :
        /\ shiftList[k].agent_id = shiftList[i].agent_id
        /\ StartsBefore(shiftList, i, k)
        /\ StartsBefore(shiftList, k, j)

\* C10: for every agent, the time from the end of one of its shifts to the
\* start of its next shift, on the same date or a later one, is at least
\* constraints.min_time_between_shifts hours.
C10_RestBetweenShifts ==
  Planned =>
    \A i, j \in DOMAIN genCall.allShifts :
      NextShiftOfAgent(genCall.allShifts, i, j) =>
        ShiftStart(genCall.allShifts[j]) - ShiftEnd(genCall.allShifts[i])
          >= CallConstraints.min_time_between_shifts * 60

\* A TimeOff record of the agent with the status covers the date.
TimeOffCovers(agentId, date, status) ==
  \E t \in timeOffs :
    /\ t.agent_id = agentId /\ t.status = status
    /\ t.start_date <= date /\ date <= t.end_date

HasShiftOn(agentId, date) ==
  \E i \in DOMAIN genCall.allShifts :
    /\ genCall.allShifts[i].agent_id = agentId
    /\ genCall.allShifts[i].shift_date = date

\* The call's shifts had the pending records not been in the table.
ShiftsWithoutPending ==
  planShifts(forecasts, {t \in timeOffs : t.status # "pending_approval"},
             genCall.scheduleData, CallConstraints)

\* C9: generateOptimizedSchedule produces no shift for an agent on a date that
\* an approved TimeOff record of the agent covers, and a record that is only
\* pending excludes nobody: the shifts are those produced without the pending
\* records.
C9_OnlyApprovedTimeOffExcludes ==
  Planned =>
    /\ \A agentId \in AgentIds, date \in CallDates :
         TimeOffCovers(agentId, date, "approved") => ~HasShiftOn(agentId, date)
    /\ genCall.allShifts = ShiftsWithoutPending

\* One agent is off, approved, on a date of the period and works on another
\* date of it; another agent works on a date its pending record covers.
C9_ApprovedOffPendingWorks ==
  /\ Planned
  /\ \E date \in CallDates, other \in CallDates :
       /\ TimeOffCovers("a1", date, "approved")
       /\ ~HasShiftOn("a1", date)
       /\ HasShiftOn("a1", other)
  /\ \E date \in CallDates :
       /\ TimeOffCovers("a2", date, "pending_approval")
       /\ ~TimeOffCovers("a2", date, "approved")
       /\ HasShiftOn("a2", date)

(***************************************************************************)
(* Properties of assignAgentsToShifts, checked under SpecAssign.           *)
(***************************************************************************)
\* Agent i of the list ranks before agent j: a higher suitability score, or
\* the same score and an earlier place in the list.
RanksBefore(agents, i, j) ==
  \/ Score(agents[i]) > Score(agents[j])
  \/ (Score(agents[i]) = Score(agents[j]) /\ i < j)

RECURSIVE HoursOf(_, _)
\* The minutes the assignments made so far give the agent.
HoursOf(prior, agentId) ==
  IF prior = <<>> THEN 0
  ELSE (IF Head(prior).agentId = agentId
        THEN Head(prior).endTime - Head(prior).startTime ELSE 0)
         + HoursOf(Tail(prior), agentId)

\* The agent may take the template after the assignments made so far.
EligibleFor(agent, pattern, prior, constraints) ==
  /\ HoursOf(prior, agent.id) + (pattern.end - pattern.start)
       <= constraints.max_hours_per_week * 60
  /\ \A i \in DOMAIN prior :
       (/\ prior[i].agentId = agent.id
        /\ \A k \in DOMAIN prior : prior[k].agentId = agent.id => k <= i)
         => calculateTimeBetween(prior[i].endTime, pattern.start)
              >= constraints.min_time_between_shifts * 60

EligibleIndexes(agents, pattern, prior, constraints) ==
  {i \in DOMAIN agents : EligibleFor(agents[i], pattern, prior, constraints)}

RECURSIVE GreedyFrom(_, _, _, _)
RECURSIVE GreedyPick(_, _, _, _, _)
\* The template goes to the eligible agent that ranks before every other
\* eligible one; without an eligible agent it is dropped.
GreedyPick(eligible, patterns, agents, constraints, prior) ==
  IF eligible = {} THEN GreedyFrom(Tail(patterns), agents, constraints, prior)
  ELSE GreedyFrom(Tail(patterns), agents, constraints,
                  Append(prior,
                         [agentId |-> agents[CHOOSE i \in eligible :
                                               \A j \in eligible \ {i} :
                                                 RanksBefore(agents, i, j)].id,
                          startTime |-> Head(patterns).start,
                          endTime |-> Head(patterns).end]))

\* The templates taken one by one in the order given.
GreedyFrom(patterns, agents, constraints, prior) ==
  IF patterns = <<>> THEN prior
  ELSE GreedyPick(EligibleIndexes(agents, Head(patterns), prior, constraints),
                  patterns, agents, constraints, prior)

\* Who got which template, in the order of the assignments.
Given(assignments) ==
  [i \in DOMAIN assignments |->
     [agentId |-> assignments[i].agentId, startTime |-> assignments[i].startTime,
      endTime |-> assignments[i].endTime]]

\* C11: assignAgentsToShifts takes the templates in the order given and gives
\* each to the first eligible agent in suitability rank order, agents of equal
\* score keeping their input order; a template without an eligible agent is
\* dropped, and the result is determined by the input.
C11_GreedyInRankOrder ==
  assignOut.op = "assignAgentsToShifts" =>
    Given(assignOut.assignments)
      = GreedyFrom(assignIn.shiftPatterns, assignIn.availableAgents,
                   assignIn.constraints, <<>>)

\* x2 stands before x1 in the input, scores the same and got the first
\* template, and a template found no eligible agent.
C11_TieAndDroppedTemplate ==
  /\ assignOut.op = "assignAgentsToShifts"
  /\ \E i, j \in DOMAIN assignIn.availableAgents :
       /\ i < j
       /\ assignIn.availableAgents[i].id = "x2"
       /\ assignIn.availableAgents[j].id = "x1"
  /\ Len(assignOut.assignments) > 0
  /\ assignOut.assignments[1].agentId = "x2"
  /\ Len(assignOut.assignments) < Len(assignIn.shiftPatterns)

(***************************************************************************)
(* Error handling of the forecasting engine, checked under Spec.           *)
(***************************************************************************)
\* The last call was generateHourlyForecasts for a channel that exists.
GeneratedForChannel ==
  /\ fcCall.op = "generateHourlyForecasts"
  /\ fcCall.channelId \in ChannelIds

\* The history of the hour, as the call read it, was empty.  (The records a
\* call creates carry no actual volume, so the table after the call holds the
\* history the call saw.)
EmptyHistory(hour) ==
  getHistoricalData(forecasts, fcCall.channelId, hour, fcCall.skillId, today, FALSE)
    = <<>>

IsFallback(row) ==
  /\ row.predicted_volume = <<10, 1>>
  /\ row.confidence_level = <<30, 100>>
  /\ row.min_volume = <<5, 1>>
  /\ row.max_volume = <<20, 1>>

\* C12: an hour whose history is empty or whose history read fails is forecast
\* with exactly volume 10, confidence 0.30, minimum 5 and maximum 20, and the
\* failed read makes generateHourlyForecasts raise nothing: with no other
\* failure the call returns and the hour has its record.
C12_EmptyHistoryFallsBack ==
  GeneratedForChannel =>
    /\ \A i \in DOMAIN fcCall.created :
         (\/ fcCall.created[i].forecast_hour \in fcCall.fail.read
          \/ EmptyHistory(fcCall.created[i].forecast_hour))
           => IsFallback(fcCall.created[i])
    /\ (OnlyStorageFailures /\ fcCall.fail.write = {}) =>
         /\ ~fcCall.threw
         /\ \A h \in OperatingHours(ChannelTable[fcCall.channelId]) :
              \E i \in DOMAIN fcCall.created : fcCall.created[i].forecast_hour = h

\* The read of an hour that has history failed, and the hour was forecast
\* with the fallback values.
C12_FailedReadForecast ==
  /\ GeneratedForChannel
  /\ ~fcCall.threw
  /\ \E i \in DOMAIN fcCall.created :
       /\ fcCall.created[i].forecast_hour \in fcCall.fail.read
       /\ ~EmptyHistory(fcCall.created[i].forecast_hour)
       /\ IsFallback(fcCall.created[i])

\* C13: generateHourlyForecasts for a channel id that no Channel has fails
\* with the channel-not-found error, creates no record and leaves the
\* Forecast table as it was.
C13_MissingChannelFailsFirst ==
  [][(/\ fcCall'.op = "generateHourlyForecasts"
      /\ fcCall'.seq = fcCall.seq + 1
      /\ fcCall'.channelId \notin ChannelIds) =>
       /\ fcCall'.threw
       /\ fcCall'.error = "Channel not found"
       /\ fcCall'.created = <<>>
       /\ forecasts' = forecasts]_vars

\* A call for a missing channel failed on a table that earlier calls had
\* filled.
C13_MissingChannelAfterRecords ==
  /\ fcCall.op = "generateHourlyForecasts"
  /\ fcCall.channelId = MissingChannel
  /\ fcCall.threw
  /\ fcCall.error = "Channel not found"
  /\ Len(forecasts) > 1

(***************************************************************************)
(* Error handling of the shift optimization engine, checked under          *)
(* SpecSchedule.                                                           *)
(***************************************************************************)
\* C14: when the read of the agents, of the forecasts or of the time-off
\* records fails in generateOptimizedSchedule, the call throws the error, no
\* Shift record is written, and all it leaves behind is the Schedule it
\* created, in status draft.
C14_FailedReadLeavesDraftOnly ==
  [][(/\ genCall'.op = "generateOptimizedSchedule"
      /\ genCall'.seq = genCall.seq + 1
      /\ genCall'.scheduleId # 0
      /\ genCall'.fail.read # "none") =>
       /\ genCall'.threw
       /\ genCall'.error = genCall'.fail.read
       /\ shifts' = shifts
       /\ Len(schedules') = Len(schedules) + 1
       /\ SubSeq(schedules', 1, Len(schedules)) = schedules
       /\ schedules'[Len(schedules')].status = "draft"
       /\ forecasts' = forecasts
       /\ timeOffs' = timeOffs]_vars

\* The read of the forecasts failed although forecasts were there to plan
\* with, and the call threw leaving the draft behind.
C14_ForecastReadFailed ==
  /\ genCall.op = "generateOptimizedSchedule"
  /\ genCall.fail.read = "getForecastData"
  /\ genCall.threw
  /\ forecasts # <<>>
  /\ Len(schedules) = 1
  /\ schedules[1].status = "draft"
  /\ shifts = <<>>

\* The divisor 1 - shrinkage that calculateRequiredAgents uses for the
\* channel, in ten-thousandths.
ShrinkageDivisor(channel) == 10000 - OrDefault(channel.shrinkage_factor, 2500)

\* C15: generateHourlyForecasts persists no forecast record whose agent counts
\* were computed with a divisor (1 - shrinkage) of 0 or less: a channel with a
\* shrinkage factor of 1.0 or more is refused, or its factor clamped, before
\* anything is stored.
C15_NoRecordFromBadShrinkage ==
  \A i \in DOMAIN forecasts :
    (forecasts[i].status = "generated" /\ forecasts[i].channel_id \in ChannelIds)
      => ShrinkageDivisor(ChannelTable[forecasts[i].channel_id]) > 0

(***************************************************************************)
(* Properties of the scheduled tasks, checked under SpecCron               *)
(***************************************************************************)
DailyRuns == {i \in 1..Len(cronRuns) : cronRuns[i].job = "daily"}
FaultySchedules(run) == run.fail.shifts \cup run.fail.forecasts
Occurrences(x, trace) == Cardinality({k \in 1..Len(trace) : trace[k] = x})
Events == {"forecast-updated", "schedules-optimized"}
EventOf(job) == IF job = "hourly" THEN "forecast-updated" ELSE "schedules-optimized"

\* C16: in a daily reoptimization run whose schedule query succeeded, every
\* active schedule other than the ones whose reoptimization failed has been
\* reoptimized: a failure on one schedule does not block the remaining ones.
C16_FailureDoesNotBlockOthers ==
  \A i \in DailyRuns :
    ~cronRuns[i].fail.schedules =>
      \A k \in 1..Len(cronRuns[i].active) :
        cronRuns[i].active[k].id \notin FaultySchedules(cronRuns[i]) =>
          cronRuns[i].active[k].id \in Range(cronRuns[i].processed)

\* C17: no run of the hourly refresh or of the daily reoptimization throws out
\* of its task callback, whatever failed inside it: the failure is caught (and
\* logged) inside the service or by the callback, and the process stays alive,
\* which is all that a later run of either task needs.
C17_TasksNeverThrow ==
  /\ alive
  /\ \A i \in 1..Len(cronRuns) :
       /\ ~cronRuns[i].threw
       /\ cronRuns[i].emitFails =>
            cronRuns[i].trace[Len(cronRuns[i].trace)] = "catch"
C17_RunAfterFailedRuns ==
  /\ Len(cronRuns) = 2
  /\ cronRuns[1].job = "daily"
  /\ cronRuns[1].caught
  /\ cronRuns[1].emitFails
  /\ cronRuns[2].job = "hourly"
  /\ cronRuns[2].caught

\* C18: a run that completed (nothing reached the catch of its callback) has
\* emitted the event of its task exactly once, after the awaited call
\* returned, and never the event of the other task; a run that did not
\* complete has emitted nothing.
C18_OneEventAfterReturn ==
  \A i \in 1..Len(cronRuns) :
    /\ \A e \in Events \ {EventOf(cronRuns[i].job)} :
         Occurrences(e, cronRuns[i].trace) = 0
    /\ Occurrences(EventOf(cronRuns[i].job), cronRuns[i].trace)
         = IF Occurrences("catch", cronRuns[i].trace) = 0 THEN 1 ELSE 0
    /\ \A k \in 1..Len(cronRuns[i].trace) :
         cronRuns[i].trace[k] \in Events =>
           \E j \in 1..(k - 1) : cronRuns[i].trace[j] = "return"
C18_BothEventsEmitted ==
  /\ Len(cronRuns) = 2
  /\ cronRuns[1].job = "hourly"
  /\ cronRuns[1].caught
  /\ Occurrences("forecast-updated", cronRuns[1].trace) = 1
  /\ cronRuns[2].job = "daily"
  /\ cronRuns[2].processed # <<>>
  /\ Occurrences("schedules-optimized", cronRuns[2].trace) = 1

(***************************************************************************)
(* Repeated generation, checked under Spec                                 *)
(***************************************************************************)
\* C19: when generateHourlyForecasts has returned the forecasts of a channel,
\* date and skill and is called again with the same arguments, no storage
\* failure in either call (the history is the same: the rows the first call
\* stored carry no observed volume), the second call returns forecasts too,
\* with the same values for every operating hour.
C19_RepeatedCallSameValues ==
  [][(/\ fcCall.op = "generateHourlyForecasts"
      /\ ~fcCall.threw
      /\ fcCall.fail = NoFault
      /\ fcCall'.op = "generateHourlyForecasts"
      /\ fcCall'.seq = fcCall.seq + 1
      /\ fcCall'.channelId = fcCall.channelId
      /\ fcCall'.date = fcCall.date
      /\ fcCall'.skillId = fcCall.skillId
      /\ fcCall'.fail = NoFault)
       => /\ ~fcCall'.threw
          /\ fcCall'.created = fcCall.created]_vars

(***************************************************************************)
(* The staffing formula, checked under SpecStaffing                        *)
(***************************************************************************)
\* The staffing formula on the channel's own values, no value replaced.
OwnBaseAgents(volume, channel) ==
  MathCeil(RatDiv(RatDiv(RatMul(volume,
                                Norm(<<channel.average_handle_time
                                         + channel.wrap_up_time, 100>>)),
                         <<60, 1>>),
                  RatSub(<<1, 1>>, Norm(<<channel.shrinkage_factor, 10000>>))))
OwnBuffer(channel) ==
  RatAdd(<<1, 1>>,
         RatMul(RatSub(Norm(<<channel.service_level_target, 10000>>), <<5, 10>>),
                <<5, 10>>))
OwnRequired(volume, channel) ==
  MathMax(<<channel.min_staffing_level, 1>>,
          MathCeil(RatMul(OwnBaseAgents(volume, channel), OwnBuffer(channel))))

\* C20: for every input, calculateRequiredAgents returns
\* required = max(min_staffing_level, ceil(ceil(volume * (aht + wrap) / 60 /
\* (1 - shrinkage)) * (1 + (target - 0.5) * 0.5))),
\* optimal = ceil(required * (1 + preferred_staffing_buffer)) and
\* minimum = min_staffing_level, on the channel's own values, 0 included.
C20_StaffingFromOwnValues ==
  staffOut # None =>
    /\ staffOut.required = OwnRequired(staffIn.predictedVolume.volume, staffIn.channel)
    /\ staffOut.optimal
         = MathCeil(RatMul(staffOut.required,
                           RatAdd(<<1, 1>>,
                                  Norm(<<staffIn.channel.preferred_staffing_buffer,
                                         10000>>))))
    /\ staffOut.minimum = <<staffIn.channel.min_staffing_level, 1>>

(***************************************************************************)
(* The shifts of one agent on one date, checked under SpecSchedule         *)
(***************************************************************************)
RECURSIVE MinutesOn(_, _, _)
\* The minutes of the agent's shifts on the date.
MinutesOn(shiftList, agentId, date) ==
  IF shiftList = <<>> THEN 0
  ELSE (IF Head(shiftList).agent_id = agentId /\ Head(shiftList).shift_date = date
        THEN Head(shiftList).end_time - Head(shiftList).start_time ELSE 0)
         + MinutesOn(Tail(shiftList), agentId, date)

\* C21: of any two shifts that generateOptimizedSchedule produces for one
\* agent on one date, one ends no later than the other starts.
C21_NoOverlapOnOneDate ==
  Planned =>
    \A i, j \in DOMAIN genCall.allShifts :
      (/\ i # j
       /\ genCall.allShifts[i].agent_id = genCall.allShifts[j].agent_id
       /\ genCall.allShifts[i].shift_date = genCall.allShifts[j].shift_date)
        => \/ genCall.allShifts[i].end_time <= genCall.allShifts[j].start_time
           \/ genCall.allShifts[j].end_time <= genCall.allShifts[i].start_time

\* C22: for every agent and every date of the period, the hours of the shifts
\* assigned to the agent on the date are at most constraints.max_hours_per_day.
C22_DailyHoursWithinMaximum ==
  Planned =>
    \A agentId \in AgentIds, date \in CallDates :
      MinutesOn(genCall.allShifts, agentId, date)
        <= CallConstraints.max_hours_per_day * 60

(***************************************************************************)
(* The rest windows of a shift, checked under SpecSchedule                 *)
(***************************************************************************)
ShiftMinutes(shift) == shift.end_time - shift.start_time

\* The breaks of the shift are one per completed block of four hours, four
\* hours apart from the shift start on, each of the configured duration.
BreaksAsStated(shift, constraints) ==
  /\ Len(shift.breaks)
       = IF ShiftMinutes(shift) < 4 * 60 THEN 0 ELSE ShiftMinutes(shift) \div (4 * 60)
  /\ \A k \in DOMAIN shift.breaks :
       /\ shift.breaks[k].start_time = shift.start_time + k * 4 * 60
       /\ shift.breaks[k].duration = constraints.min_break_duration
       /\ shift.breaks[k].end_time - shift.breaks[k].start_time
            = constraints.min_break_duration

\* The shift has a lunch exactly when it lasts six hours or more, of the
\* configured duration.
LunchAsStated(shift, constraints) ==
  /\ Len(shift.lunch_break) = IF ShiftMinutes(shift) < 6 * 60 THEN 0 ELSE 1
  /\ \A l \in DOMAIN shift.lunch_break :
       /\ shift.lunch_break[l].duration = constraints.lunch_break_duration
       /\ shift.lunch_break[l].end_time - shift.lunch_break[l].start_time
            = constraints.lunch_break_duration

\* The middle of the lunch window is the middle of the shift.
LunchCentered(shift) ==
  \A l \in DOMAIN shift.lunch_break :
    shift.lunch_break[l].start_time + shift.lunch_break[l].end_time
      = shift.start_time + shift.end_time

\* C23: a shift of h hours gets no break when h < 4 and floor(h / 4) breaks
\* when h >= 4, evenly spaced from the shift start and each of the configured
\* duration; it gets no lunch when h < 6 and, when h >= 6, exactly one lunch of
\* the configured duration, centered at the middle of the shift.
C23_BreaksAndLunchAsStated ==
  Planned =>
    \A i \in DOMAIN genCall.allShifts :
      /\ BreaksAsStated(genCall.allShifts[i], CallConstraints)
      /\ LunchAsStated(genCall.allShifts[i], CallConstraints)
      /\ LunchCentered(genCall.allShifts[i])

\* Two windows of one day share no time.
Disjoint(a, b) == a.end_time <= b.start_time \/ b.end_time <= a.start_time

\* C24: within one generated shift the break windows are pairwise disjoint and
\* none of them overlaps the lunch window.
C24_RestWindowsDisjoint ==
  Planned =>
    \A i \in DOMAIN genCall.allShifts :
      /\ \A a, b \in DOMAIN genCall.allShifts[i].breaks :
           a # b => Disjoint(genCall.allShifts[i].breaks[a],
                             genCall.allShifts[i].breaks[b])
      /\ \A b \in DOMAIN genCall.allShifts[i].breaks,
            l \in DOMAIN genCall.allShifts[i].lunch_break :
           Disjoint(genCall.allShifts[i].breaks[b], genCall.allShifts[i].lunch_break[l])

(***************************************************************************)
(* The forecasts a schedule is planned from, checked under SpecSchedule    *)
(***************************************************************************)
\* The stored forecast counts for the call: published or approved, and of a
\* channel the call asked for.
Counts(f) ==
  /\ f.status \in {"published", "approved"}
  /\ (Len(genCall.scheduleData.channelIds) > 0 =>
        f.channel_id \in Range(genCall.scheduleData.channelIds))

\* The Forecast table without the rows that are neither published nor approved.
ReleasedForecasts ==
  SelectSeq(forecasts, LAMBDA f : f.status \in {"published", "approved"})

\* The hourly requirements generateDailyShifts works from on the date.
RequirementsUsed(date) ==
  calculateHourlyRequirements(
    ForecastsOn(getForecastData(forecasts, genCall.scheduleData.channelIds,
                                genCall.scheduleData.startDate,
                                genCall.scheduleData.endDate),
                date))

Persisted(n) ==
  /\ Len(shifts) = n
  /\ \A k \in 1..n :
       /\ shifts[k].schedule_id = genCall.scheduleId
       /\ \A field \in DOMAIN genCall.allShifts[k] :
            shifts[k][field] = genCall.allShifts[k][field]

\* C26: the Schedule of a generateOptimizedSchedule call is in status
\* generated only when every shift of the period is persisted and the metrics
\* are stored with it; and when the INSERT of a shift fails, the call throws
\* that error, the Schedule is still draft and the shifts persisted before the
\* failure, and only they, are in the Shift table.
C26_GeneratedAfterAllShifts ==
  Planned =>
    /\ schedules[genCall.scheduleId].status = "generated" =>
         /\ ~genCall.threw
         /\ Persisted(Len(genCall.allShifts))
         /\ schedules[genCall.scheduleId].service_level_achieved # <<>>
    /\ genCall.fail.shift \in 1..Len(genCall.allShifts) =>
         /\ genCall.threw
         /\ genCall.error = "Shift.create"
         /\ schedules[genCall.scheduleId].status = "draft"
         /\ Persisted(genCall.fail.shift - 1)

\* The seventh INSERT failed: six shifts are stored under a draft schedule.
C26_SeventhShiftFailed ==
  /\ Planned
  /\ genCall.fail.shift = 7
  /\ Len(genCall.allShifts) > 7
  /\ genCall.threw
  /\ Len(shifts) = 6
  /\ schedules[genCall.scheduleId].status = "draft"

(***************************************************************************)
(* The records of one generation call, checked under Spec                  *)
(***************************************************************************)
\* The hours from the hour of operating_hours_start up to, not including, the
\* hour of operating_hours_end.
WindowHours(channel) ==
  {h \in 0..23 : /\ channel.operating_hours_start \div 60 <= h
                 /\ h < channel.operating_hours_end \div 60}

\* C27: a generateHourlyForecasts call that does not fail appends to the
\* Forecast table exactly one record for each hour of the channel's operating
\* window, in ascending order of the hour, for the channel, skill and date of
\* the call, and nothing else; these records are what it returns, so that
\* their number is the number of operating hours.
C27_OneRecordPerOperatingHour ==
  [][(/\ fcCall'.op = "generateHourlyForecasts"
      /\ fcCall'.seq = fcCall.seq + 1
      /\ ~fcCall'.threw)
       => /\ forecasts' = forecasts \o fcCall'.created
          /\ Len(fcCall'.created)
               = Cardinality(WindowHours(ChannelTable[fcCall'.channelId]))
          /\ [k \in DOMAIN fcCall'.created |-> fcCall'.created[k].forecast_hour]
               = Ascending(WindowHours(ChannelTable[fcCall'.channelId]))
          /\ \A k \in DOMAIN fcCall'.created :
               /\ fcCall'.created[k].channel_id = fcCall'.channelId
               /\ fcCall'.created[k].skill_id = fcCall'.skillId
               /\ fcCall'.created[k].forecast_date = fcCall'.date]_vars

\* A second call has added the two operating hours of c1 to a table that held
\* records already.
C27_TwoHoursAdded ==
  /\ fcCall.op = "generateHourlyForecasts"
  /\ fcCall.seq = 2
  /\ fcCall.channelId = "c1"
  /\ ~fcCall.threw
  /\ Len(fcCall.created) = 2
  /\ Len(forecasts) > 3

(***************************************************************************)
(* Properties of findPeakHours, generateShiftPatterns and optimizeSchedule,*)
(* checked under SpecOptimizer                                             *)
(***************************************************************************)
\* Hour a is ranked before hour b: more agents, or as many and earlier.
RanksFirst(requirements, a, b) ==
  \/ requirements[a].totalAgents > requirements[b].totalAgents
  \/ /\ requirements[a].totalAgents = requirements[b].totalAgents
     /\ a < b

\* C28: findPeakHours returns ceil(0.3 * n) of the n hours that have
\* requirements, in rank order, and every hour it leaves out ranks after every
\* hour it returns; an hour ranks before another when its totalAgents is
\* larger, or equal and the hour earlier.
C28_TopThirtyPercentByAgents ==
  optOut.op = "findPeakHours" =>
    /\ 10 * Len(optOut.peakHours) >= 3 * Cardinality(DOMAIN optIn.hourlyRequirements)
    /\ 10 * (Len(optOut.peakHours) - 1)
         < 3 * Cardinality(DOMAIN optIn.hourlyRequirements)
    /\ \A i \in DOMAIN optOut.peakHours :
         optOut.peakHours[i] \in DOMAIN optIn.hourlyRequirements
    /\ \A i, j \in DOMAIN optOut.peakHours :
         i < j => RanksFirst(optIn.hourlyRequirements, optOut.peakHours[i],
                             optOut.peakHours[j])
    /\ \A h \in DOMAIN optIn.hourlyRequirements \ Range(optOut.peakHours) :
         \A i \in DOMAIN optOut.peakHours :
           RanksFirst(optIn.hourlyRequirements, optOut.peakHours[i], h)

\* Two peak hours out of five with a tie between them, and an hour left out
\* that has as many agents as the last one taken.
C28_TieAtTheCut ==
  /\ optOut.op = "findPeakHours"
  /\ Cardinality(DOMAIN optIn.hourlyRequirements) = 5
  /\ Len(optOut.peakHours) = 2
  /\ optIn.hourlyRequirements[optOut.peakHours[1]].totalAgents
       = optIn.hourlyRequirements[optOut.peakHours[2]].totalAgents
  /\ \E h \in DOMAIN optIn.hourlyRequirements \ Range(optOut.peakHours) :
       optIn.hourlyRequirements[h].totalAgents
         = optIn.hourlyRequirements[optOut.peakHours[2]].totalAgents
  /\ \E h \in DOMAIN optIn.hourlyRequirements :
       optIn.hourlyRequirements[h].totalAgents
         # optIn.hourlyRequirements[optOut.peakHours[2]].totalAgents

\* The templates of the catalogue in listed order.
Catalogue == standardShifts \o partTimeShifts

\* The place of a returned pattern in the catalogue.
CatalogueIndex(pattern) ==
  CHOOSE k \in DOMAIN Catalogue :
    /\ Catalogue[k].start = pattern.start
    /\ Catalogue[k].end = pattern.end
    /\ Catalogue[k].type = pattern.type

\* The peak hours h with start <= h < end.
PeakHoursWithin(pattern, peakHours) ==
  {i \in DOMAIN peakHours : /\ pattern.start <= peakHours[i] * 60
                            /\ peakHours[i] * 60 < pattern.end}

\* C29: generateShiftPatterns returns the eight templates of the catalogue,
\* each once, each with priority equal to the number of peak hours inside
\* [start, end), in descending order of priority, templates of equal priority
\* in catalogue order.
C29_CatalogueByPriority ==
  optOut.op = "generateShiftPatterns" =>
    /\ Len(optOut.patterns) = 8
    /\ \A k \in DOMAIN Catalogue :
         \E i \in DOMAIN optOut.patterns :
           /\ optOut.patterns[i].start = Catalogue[k].start
           /\ optOut.patterns[i].end = Catalogue[k].end
           /\ optOut.patterns[i].type = Catalogue[k].type
    /\ \A i \in DOMAIN optOut.patterns :
         optOut.patterns[i].priority
           = Cardinality(PeakHoursWithin(optOut.patterns[i],
                                         findPeakHours(optIn.hourlyRequirements)))
    /\ \A i, j \in DOMAIN optOut.patterns :
         i < j =>
           \/ optOut.patterns[i].priority > optOut.patterns[j].priority
           \/ /\ optOut.patterns[i].priority = optOut.patterns[j].priority
              /\ CatalogueIndex(optOut.patterns[i]) < CatalogueIndex(optOut.patterns[j])

\* Two templates tie on two peak hours, the standard one first; the part-time
\* one of them ranks above standard templates, which tie without a peak hour.
C29_PartTimeAboveStandard ==
  /\ optOut.op = "generateShiftPatterns"
  /\ optOut.patterns[1].type # "part_time"
  /\ optOut.patterns[1].priority = 2
  /\ optOut.patterns[2].type = "part_time"
  /\ optOut.patterns[2].priority = 2
  /\ optOut.patterns[3].priority = 1
  /\ \E i \in 4..7 :
       /\ optOut.patterns[i].type # "part_time"
       /\ optOut.patterns[i + 1].type # "part_time"
       /\ optOut.patterns[i].priority = 0
       /\ optOut.patterns[i + 1].priority = 0

\* C30: for every setting of the four strategy switches, optimizeSchedule
\* returns the shifts of its input, in the same order.
C30_StrategiesChangeNothing ==
  optOut.op = "optimizeSchedule" => optOut.shifts = optIn.shifts

\* All four strategies ran over the shifts of a day.
C30_AllStrategiesOn ==
  /\ optOut.op = "optimizeSchedule"
  /\ Len(optIn.shifts) > 1
  /\ optIn.shifts[1] # optIn.shifts[Len(optIn.shifts)]
  /\ optIn.schedule.optimization_preferences.balance_workload
  /\ optIn.schedule.optimization_preferences.minimize_overtime
  /\ optIn.schedule.optimization_preferences.prioritize_agent_preferences
  /\ optIn.schedule.optimization_preferences.optimize_for_service_level

====
